---- MODULE Spec2Model ----
(***************************************************************************)
(* A model of the x86/x64 instruction encoder of dynasm-rs                 *)
(* (lib/src/arch/x64/compiler.rs), of the architecture objects that carry  *)
(* the active feature set (lib/src/arch/x64/mod.rs), of the directives     *)
(* that drive them (lib/src/directive.rs) and of the Number type the       *)
(* encoder converts displacements with (lib/src/common.rs).                *)
(*                                                                         *)
(* Conventions.                                                            *)
(*   Option<T>       None is <<>>, Some(x) is <<x>>.                       *)
(*   Size            the number of bytes (the enum's discriminant).        *)
(*   u64             a tuple of 8 bytes, least significant first.          *)
(*   Result / panic  a compile state carries res, "run" while the call is  *)
(*                   still executing, then "Ok", "Err" or "Panic"; every   *)
(*                   step is the identity once res is not "run", which is  *)
(*                   how `?`, `return Err` and an unwinding panic leave    *)
(*                   the rest of the function unexecuted.                  *)
(*   role            every pushed statement carries a ghost field naming   *)
(*                   the place of compile_instruction that pushed it; the  *)
(*                   program never reads it.                               *)
(***************************************************************************)
EXTENDS Integers, Sequences, FiniteSets, TLC

(***************************************************************************)
(* common.rs: Size, NumericRepr                                            *)
(***************************************************************************)
BYTE == 1
WORD == 2
DWORD == 4
FWORD == 6
QWORD == 8
PWORD == 10
OWORD == 16
HWORD == 32

None == <<>>
Some(x) == <<x>>
IsSome(o) == o # <<>>
IsNone(o) == o = <<>>

in_bytes(size) == size

NumericRepr(size, signed) == [size |-> size, signed |-> signed]
U8 == NumericRepr(BYTE, FALSE)
I8 == NumericRepr(BYTE, TRUE)
I16 == NumericRepr(WORD, TRUE)
U32 == NumericRepr(DWORD, FALSE)
I32 == NumericRepr(DWORD, TRUE)

(***************************************************************************)
(* 64-bit words as 8 bytes, least significant first                        *)
(***************************************************************************)
Pow2(i) == CASE i = 0 -> 1 [] i = 1 -> 2 [] i = 2 -> 4 [] i = 3 -> 8
             [] i = 4 -> 16 [] i = 5 -> 32 [] i = 6 -> 64 [] i = 7 -> 128
             [] OTHER -> 256

Bit(a, i) == (a \div Pow2(i)) % 2

RECURSIVE SumBits(_, _)
SumBits(f, i) == IF i < 0 THEN 0 ELSE f[i] * Pow2(i) + SumBits(f, i - 1)

AndByte(a, b) == SumBits([i \in 0..7 |-> Bit(a, i) * Bit(b, i)], 7)
OrByte(a, b) == SumBits([i \in 0..7 |-> IF Bit(a, i) + Bit(b, i) > 0 THEN 1 ELSE 0], 7)
XorByte(a, b) == SumBits([i \in 0..7 |-> (Bit(a, i) + Bit(b, i)) % 2], 7)

U64(n) == [i \in 1..8 |-> CASE i = 1 -> n % 256
                            [] i = 2 -> (n \div 256) % 256
                            [] i = 3 -> (n \div 65536) % 256
                            [] i = 4 -> (n \div 16777216) % 256
                            [] OTHER -> 0]
AllOnes == [i \in 1..8 |-> 255]
And64(a, b) == [i \in 1..8 |-> AndByte(a[i], b[i])]
Or64(a, b) == [i \in 1..8 |-> OrByte(a[i], b[i])]
Xor64(a, b) == [i \in 1..8 |-> XorByte(a[i], b[i])]
Not64(a) == [i \in 1..8 |-> 255 - a[i]]

\* (!0u64) >> k for 0 <= k < 64: the low 64-k bits set.
OnesShr(k) == [i \in 1..8 |->
                LET c == 64 - k - 8 * (i - 1)
                IN  IF c >= 8 THEN 255 ELSE IF c <= 0 THEN 0 ELSE Pow2(c) - 1]

\* 1u64 << k for 0 <= k < 64.
OneShl(k) == [i \in 1..8 |-> IF k \div 8 = i - 1 THEN Pow2(k % 8) ELSE 0]

\* a - 1 on u64, for a # 0.
RECURSIVE Dec64From(_, _)
Dec64From(a, i) ==
    IF i > 8 THEN a
    ELSE IF a[i] > 0 THEN [a EXCEPT ![i] = a[i] - 1]
    ELSE Dec64From([a EXCEPT ![i] = 255], i + 1)
Dec64(a) == Dec64From(a, 1)

\* a < b on u64: compare from the most significant byte down.
RECURSIVE Lt64From(_, _, _)
Lt64From(a, b, i) ==
    IF i < 1 THEN FALSE
    ELSE IF a[i] # b[i] THEN a[i] < b[i]
    ELSE Lt64From(a, b, i - 1)
Lt64(a, b) == Lt64From(a, b, 8)
Le64(a, b) == a = b \/ Lt64(a, b)
Min64(a, b) == IF Lt64(b, a) THEN b ELSE a
Max64(a, b) == IF Lt64(a, b) THEN b ELSE a

(***************************************************************************)
(* common.rs: Number, Value, Expr                                          *)
(*                                                                         *)
(* A Number is [value: u64, repr]; an Expr is [idx, repr]; a Value is      *)
(* [num |-> TRUE, n |-> Number] or [num |-> FALSE, e |-> Expr].            *)
(* Operations that can panic return [st |-> "panic"]; convert returns      *)
(* [st |-> "none"] or [st |-> "some", n |-> Number] otherwise.             *)
(***************************************************************************)
from_u64_and_repr(value, repr) == [value |-> value, repr |-> repr]
from_u64_and_size(val, size) == from_u64_and_repr(val, NumericRepr(size, FALSE))
NumberByte(val) == from_u64_and_size(U64(val), BYTE)
NumberDword(val) == from_u64_and_size(U64(val), DWORD)

MkExpr(idx, repr) == [idx |-> idx, repr |-> repr]
ValueNumber(n) == [num |-> TRUE, n |-> n]
ValueExpr(e) == [num |-> FALSE, e |-> e]
ValueByte(val) == ValueNumber(NumberByte(val))
ValueDword(val) == ValueNumber(NumberDword(val))
ValueRepr(v) == IF v.num THEN v.n.repr ELSE v.e.repr
ValueSize(v) == ValueRepr(v).size

\* size_of::<u64>(), which mask uses as if it were the number of bits.
ALL_BITS == 8

byte_len(n) == in_bytes(n.repr.size)

\* mask panics (checked_sub(..).unwrap() on None) when the width in bits
\* exceeds ALL_BITS.  byte_len * 8 is computed in u8 and overflows only for
\* HWORD, a size no Number of this model has.
mask_panics(n) == byte_len(n) * 8 > ALL_BITS
mask(n) == OnesShr(ALL_BITS - byte_len(n) * 8)

sign_bit(n) == OneShl(byte_len(n) * 8 - 1)
is_sign_bit_set(n) == And64(n.value, sign_bit(n)) # U64(0)

repr_of_max(n) == Xor64(mask(n), IF n.repr.signed THEN sign_bit(n) ELSE U64(0))
repr_below_min(n) ==
    IF n.repr.signed THEN Dec64(Xor64(AllOnes, repr_of_max(n))) ELSE U64(0)

\* Every path of correct_extension_bits_for_sign evaluates mask().
correct_extension_bits_for_sign(n) ==
    IF mask_panics(n) THEN [st |-> "panic"]
    ELSE IF n.repr.signed /\ is_sign_bit_set(n)
         THEN [st |-> "ok", n |-> [n EXCEPT !.value = Or64(n.value, Not64(mask(n)))]]
         ELSE [st |-> "ok", n |-> [n EXCEPT !.value = And64(n.value, mask(n))]]

cast_as(n, repr) == correct_extension_bits_for_sign([n EXCEPT !.repr = repr])

convert(n, repr) ==
    LET c == cast_as(n, repr)
    IN  IF c.st = "panic" \/ mask_panics(n) THEN [st |-> "panic"]
        ELSE LET cast == c.n
                 max == Min64(repr_of_max(n), repr_of_max(cast))
                 below_min == Max64(repr_below_min(n), repr_below_min(cast))
             IN  IF Le64(cast.value, max) /\ Lt64(below_min, cast.value)
                 THEN [st |-> "some", n |-> cast]
                 ELSE [st |-> "none"]

\* make_signed and resize
make_signed(n, signed) == correct_extension_bits_for_sign([n EXCEPT !.repr.signed = signed])
resize(n, size) == [n EXCEPT !.repr.size = size]

\* as_u8: cast_as(U8).value as u8 (cast_as to a BYTE repr never panics).
as_u8(n) == cast_as(n, U8).n.value[1]

\* Value::convert: a Number converts, an Expr only changes its repr.
ValueConvert(v, repr) ==
    IF v.num
    THEN LET r == convert(v.n, repr)
         IN  IF r.st = "some" THEN [st |-> "some", v |-> ValueNumber(r.n)] ELSE r
    ELSE [st |-> "some", v |-> ValueExpr(MkExpr(v.e.idx, repr))]

(***************************************************************************)
(* arch/x64/ast.rs: registers.                                             *)
(*                                                                         *)
(* A RegId is [family, code]; a RegKind is Static(RegId) or                *)
(* Dynamic(family, Expr): [dyn, family, code, expr] (code is 0 and unused  *)
(* for a dynamic register, expr is 0 and unused for a static one); a       *)
(* Register is [kind, size].                                               *)
(***************************************************************************)
RegId(fam, c) == [family |-> fam, code |-> c]
RAX == RegId("LEGACY", 0)
RCX == RegId("LEGACY", 1)
RDX == RegId("LEGACY", 2)
RBX == RegId("LEGACY", 3)
RSP == RegId("LEGACY", 4)
RBP == RegId("LEGACY", 5)
RSI == RegId("LEGACY", 6)
RDI == RegId("LEGACY", 7)
R8 == RegId("LEGACY", 8)
R9 == RegId("LEGACY", 9)
R12 == RegId("LEGACY", 12)
R13 == RegId("LEGACY", 13)
AH == RegId("HIGHBYTE", 4)
RIP == RegId("RIP", 5)
XMM0 == RegId("XMM", 0)
XMM1 == RegId("XMM", 1)
XMM2 == RegId("XMM", 2)
XMM9 == RegId("XMM", 9)
MMX0 == RegId("MMX", 0)
MMX1 == RegId("MMX", 1)

Static(id) == [dyn |-> FALSE, family |-> id.family, code |-> id.code, expr |-> 0]
Dynamic(fam, idx) == [dyn |-> TRUE, family |-> fam, code |-> 0, expr |-> idx]
from_number(id) == Static(RegId("LEGACY", id))
Register(size, kind) == [kind |-> kind, size |-> size]
new_static(size, id) == Register(size, Static(id))

is_dynamic(k) == k.dyn
code(k) == IF k.dyn THEN None ELSE Some(k.code)
\* code().unwrap_or(0)
encode(k) == IF k.dyn THEN 0 ELSE k.code
\* code().unwrap_or(8) > 7 in the families that have sixteen registers
is_extended(k) ==
    /\ k.family \in {"LEGACY", "XMM", "CONTROL", "DEBUG"}
    /\ (IF k.dyn THEN 8 ELSE k.code) > 7

\* PartialEq<RegId> for RegKind, Register and Option<Register>: a dynamic
\* register equals no RegId, None equals no RegId, sizes are not compared.
KindIs(k, id) == ~k.dyn /\ k.family = id.family /\ k.code = id.code
RegIs(r, id) == KindIs(r.kind, id)
OptRegIs(o, id) == IsSome(o) /\ RegIs(o[1], id)

\* The expression a dynamic register kind carries.
KindExpr(k) == MkExpr(k.expr, U8)

(***************************************************************************)
(* compiler.rs: encode_scale                                               *)
(***************************************************************************)
encode_scale(scale) ==
    CASE scale = 1 -> Some(0)
      [] scale = 2 -> Some(1)
      [] scale = 4 -> Some(2)
      [] scale = 8 -> Some(3)
      [] OTHER -> None

(***************************************************************************)
(* compiler.rs: sanitize_indirect.                                         *)
(* An index is [reg, scale, expr] with expr the optional dynamic scale.    *)
(* The result is [err, diag, base, index, size]: err is Err(Fatal), diag   *)
(* counts the emit_error_at calls, size is the returned Option<Size>.      *)
(***************************************************************************)
Index(reg, scale, expr) == [reg |-> reg, scale |-> scale, expr |-> expr]
SanResult(err, diag, base, index, size) ==
    [err |-> err, diag |-> diag, base |-> base, index |-> index, size |-> size]
SanFatal(base, index) == SanResult(TRUE, 1, base, index, None)

\* lines 696-708: RIP-relative encoding
sanitize_rip(base, index, size) ==
    IF IsNone(index) THEN SanResult(FALSE, 0, base, None, Some(size))
    ELSE IF index[1].scale = 1 /\ IsNone(index[1].expr)
         THEN SanResult(FALSE, 0, Some(index[1].reg), None, Some(size))
         ELSE SanFatal(base, None)

\* lines 710-717: VSIB without base
sanitize_vsib_nobase(base, index, diag) ==
    IF IsSome(base)
    THEN SanResult(FALSE, diag, None, Some(Index(base[1], 1, None)), None)
    ELSE SanResult(FALSE, diag, None, index, None)

\* lines 719-735: VSIB with base
sanitize_vsib(base, index, size) ==
    IF base[1].kind.family = "XMM"
    THEN IF index[1].scale = 1 /\ IsNone(index[1].expr)
         THEN SanResult(FALSE, 0, Some(index[1].reg),
                        Some(Index(base[1], 1, None)), Some(size))
         ELSE SanFatal(base, index)
    ELSE SanResult(FALSE, 0, base, index, Some(size))

\* lines 754-771: the rm code of a 16-bit register combination, None for
\* "Impossible register combination"
encoded_base16(r1, r2) ==
    CASE (OptRegIs(r1, RBX) /\ OptRegIs(r2, RSI)) \/ (OptRegIs(r1, RSI) /\ OptRegIs(r2, RBX)) -> Some(0)
      [] (OptRegIs(r1, RBX) /\ OptRegIs(r2, RDI)) \/ (OptRegIs(r1, RDI) /\ OptRegIs(r2, RBX)) -> Some(1)
      [] (OptRegIs(r1, RBP) /\ OptRegIs(r2, RSI)) \/ (OptRegIs(r1, RSI) /\ OptRegIs(r2, RBP)) -> Some(2)
      [] (OptRegIs(r1, RBP) /\ OptRegIs(r2, RDI)) \/ (OptRegIs(r1, RDI) /\ OptRegIs(r2, RBP)) -> Some(3)
      [] IsNone(r2) /\ OptRegIs(r1, RSI) -> Some(4)
      [] IsNone(r2) /\ OptRegIs(r1, RDI) -> Some(5)
      [] IsNone(r2) /\ OptRegIs(r1, RBP) -> Some(6)
      [] IsNone(r2) /\ OptRegIs(r1, RBX) -> Some(7)
      [] OTHER -> None

\* lines 737-775: 16-bit legacy addressing
sanitize_16bit(base, index, size) ==
    IF IsSome(index) /\ ~(index[1].scale = 1 /\ IsNone(index[1].expr))
    THEN SanFatal(None, None)
    ELSE LET second0 == IF IsSome(index) THEN Some(index[1].reg) ELSE None
             first_reg == IF IsNone(base) THEN second0 ELSE base
             second_reg == IF IsNone(base) THEN None ELSE second0
             enc == encoded_base16(first_reg, second_reg)
         IN  IF IsNone(enc) THEN SanFatal(None, None)
             ELSE SanResult(FALSE, 0, Some(new_static(WORD, RegId("LEGACY", enc[1]))),
                            None, Some(size))

\* split_index without the rewrite: a variant C23 tells from the code
split_index_never(nosplit, base, index) == [base |-> base, index |-> index]

\* lines 777-790: a sole index with scale 2, 3, 5 or 9 becomes base + index
split_index(nosplit, base, index) ==
    IF ~nosplit /\ IsNone(base) /\ IsSome(index) /\ IsNone(index[1].expr)
       /\ index[1].scale \in {2, 3, 5, 9}
    THEN [base |-> Some(index[1].reg),
          index |-> Some(Index(index[1].reg, index[1].scale - 1, None))]
    ELSE [base |-> base, index |-> index]

\* sib_escape without the escape: a variant C3 tells from the code
sib_escape_never(base, index, size) == index

\* lines 807-810: RSP, R12 or a dynamic base without index gets the index RSP
sib_escape(base, index, size) ==
    IF IsNone(index) /\ (OptRegIs(base, RSP) \/ OptRegIs(base, R12)
                         \/ (IsSome(base) /\ is_dynamic(base[1].kind)))
    THEN Some(Index(new_static(size, RSP), 1, None))
    ELSE index

\* sanitize_normal without the swap of lines 792-805: a variant C22 tells
\* from the code
sanitize_normal_noswap(nosplit, base0, index0, size) ==
    LET sp == split_index(nosplit, base0, index0)
    IN  SanResult(FALSE, 0, sp.base, sib_escape(sp.base, sp.index, size), Some(size))

\* lines 777-813: normal addressing
sanitize_normal(nosplit, base0, index0, size) ==
    LET sp == split_index(nosplit, base0, index0)
        base == sp.base
        index == sp.index
    IN  IF IsSome(index) /\ RegIs(index[1].reg, RSP)
        THEN IF ~OptRegIs(base, RSP) /\ index[1].scale = 1 /\ IsNone(index[1].expr)
             THEN LET nindex == IF IsSome(base) THEN Some(Index(base[1], 1, None)) ELSE None
                      nbase == Some(index[1].reg)
                  IN  SanResult(FALSE, 0, nbase, sib_escape(nbase, nindex, size), Some(size))
             ELSE SanFatal(base, None)
        ELSE SanResult(FALSE, 0, base, sib_escape(base, index, size), Some(size))

sanitize_indirect(mode, nosplit, base, index) ==
    IF IsNone(base) /\ IsNone(index) THEN SanResult(FALSE, 0, base, index, None)
    ELSE
    LET both == IsSome(base) /\ IsSome(index)
        f1 == base[1].kind.family
        s1 == base[1].size
        f2 == index[1].reg.kind.family
        s2 == index[1].reg.size
        vsib_mode == both /\ f1 # f2 /\ (f1 = "XMM" \/ f2 = "XMM")
        size == IF ~both THEN (IF IsSome(base) THEN s1 ELSE s2)
                ELSE IF f1 = f2 THEN s1 ELSE IF f1 = "XMM" THEN s2 ELSE s1
        family == IF ~both THEN (IF IsSome(base) THEN f1 ELSE f2)
                  ELSE IF f1 = f2 THEN f1 ELSE IF f1 = "XMM" THEN f2 ELSE f1
    IN  \* lines 639-667
        IF both /\ f1 = f2 /\ s1 # s2 THEN SanFatal(base, index)
        ELSE IF both /\ f1 # f2 /\ f1 # "XMM" /\ f2 # "XMM" THEN SanFatal(base, index)
        \* lines 670-694
        ELSE IF family = "RIP" /\ both THEN SanFatal(base, index)
        ELSE IF family = "LEGACY" /\ size = WORD /\ (mode = "Protected" \/ vsib_mode)
             THEN SanFatal(base, index)
        ELSE IF family = "LEGACY" /\ size \notin {DWORD, QWORD, WORD} THEN SanFatal(base, index)
        ELSE IF family \notin {"RIP", "LEGACY", "XMM"} THEN SanFatal(base, index)
        ELSE IF family = "RIP" THEN sanitize_rip(base, index, size)
        \* line 687-689: the diagnostic is emitted, the call goes on
        ELSE IF family = "XMM" THEN sanitize_vsib_nobase(base, index, IF both THEN 1 ELSE 0)
        ELSE IF vsib_mode THEN sanitize_vsib(base, index, size)
        ELSE IF size = WORD THEN sanitize_16bit(base, index, size)
        ELSE sanitize_normal(nosplit, base, index, size)

(***************************************************************************)
(* arch/x64/ast.rs: CleanArg and SizedArg, common.rs: Jump.                *)
(* A SizedArg is the CleanArg record it was made from; JumpTarget gets its *)
(* size replaced by the resolved one (size_operands).                      *)
(***************************************************************************)
Jump(kind, offset) == [kind |-> kind, offset |-> offset]
Direct(reg) == [t |-> "Direct", reg |-> reg]
Indirect(nosplit, size, disp_size, base, index, disp) ==
    [t |-> "Indirect", nosplit |-> nosplit, size |-> size, disp_size |-> disp_size,
     base |-> base, index |-> index, disp |-> disp]
Immediate(value) == [t |-> "Immediate", value |-> value]
JumpTarget(jump, size) == [t |-> "JumpTarget", jump |-> jump, size |-> size]
IndirectJumpTarget(jump, size) == [t |-> "IndirectJumpTarget", jump |-> jump, size |-> size]

(***************************************************************************)
(* compiler.rs: sanitize_indirects_and_sizes.                              *)
(* The accumulator is [args, addr_size, seen, diag, err].                  *)
(***************************************************************************)
derive_size(val) == Some(ValueSize(val))

\* lines 584-611 for one Indirect argument after sanitize_indirect:
\* the diagnostics and the derived displacement size
disp_diags(arg, index, addr_size) ==
    (IF IsSome(index) /\ IsNone(encode_scale(index[1].scale)) THEN 1 ELSE 0)
    + (IF IsSome(arg.disp_size) /\ IsNone(arg.disp) THEN 1 ELSE 0)
    + (IF IsSome(arg.disp_size)
          /\ (IF addr_size = Some(WORD)
              THEN arg.disp_size[1] \notin {BYTE, WORD}
              ELSE arg.disp_size[1] \notin {BYTE, DWORD})
       THEN 1 ELSE 0)

derived_disp_size(arg, addr_size) ==
    IF IsSome(arg.disp_size) THEN arg.disp_size
    ELSE IF IsNone(arg.disp) THEN None
    ELSE IF derive_size(arg.disp[1]) = Some(BYTE) THEN Some(BYTE)
    ELSE IF addr_size = Some(WORD) THEN Some(WORD)
    ELSE Some(DWORD)

sanitize_arg(mode, acc, idx) ==
    LET arg == acc.args[idx]
    IN  IF arg.t # "Indirect" THEN acc
        ELSE LET multi == IF acc.seen THEN 1 ELSE 0
                 r == sanitize_indirect(mode, arg.nosplit, arg.base, arg.index)
             IN  IF r.err
                 THEN [acc EXCEPT !.err = TRUE, !.diag = @ + multi + r.diag, !.seen = TRUE]
                 ELSE [acc EXCEPT
                         !.seen = TRUE,
                         !.addr_size = r.size,
                         !.diag = @ + multi + r.diag + disp_diags(arg, r.index, r.size),
                         !.args[idx] = [arg EXCEPT !.base = r.base, !.index = r.index,
                                          !.disp_size = derived_disp_size(arg, r.size)]]

RECURSIVE sanitize_from(_, _, _)
sanitize_from(mode, acc, idx) ==
    IF idx > Len(acc.args) \/ acc.err THEN acc
    ELSE sanitize_from(mode, sanitize_arg(mode, acc, idx), idx + 1)

sanitize_indirects_and_sizes(mode, args) ==
    sanitize_from(mode, [args |-> args, addr_size |-> None, seen |-> FALSE,
                         diag |-> 0, err |-> FALSE], 1)

(***************************************************************************)
(* compiler.rs: Opdata, FormatStringIterator, match_format_string.         *)
(* A format string is a sequence of one-character strings, two per slot.   *)
(***************************************************************************)
Opdata(args, ops, reg, flags, features) ==
    [args |-> args, ops |-> ops, reg |-> reg, flags |-> flags, features |-> features]

FmtCode(fmt, i) == fmt.args[2 * i - 1]
FmtSize(fmt, i) == fmt.args[2 * i]

Lowercase == {"a", "b", "c", "d", "e", "f", "g", "h", "i", "j", "k", "l", "m",
              "n", "o", "p", "q", "r", "s", "t", "u", "v", "w", "x", "y", "z"}
LegacyLetters == <<"A", "B", "C", "D", "E", "F", "G", "H",
                   "I", "J", "K", "L", "M", "N", "O", "P">>
SegmentLetters == <<"Q", "R", "S", "T", "U", "V">>
LetterSet(letters) == {letters[i] : i \in 1..Len(letters)}
LetterIndex(letters, c) == (CHOOSE i \in 1..Len(letters) : letters[i] = c) - 1

\* lines 882-949: the operand's size if its kind fits the slot's code:
\* [ok |-> FALSE] for "argument type mismatch", else [ok |-> TRUE, size]
slot_size(c, arg) ==
    LET yes(size) == [ok |-> TRUE, size |-> size]
        no == [ok |-> FALSE, size |-> None]
        fam == arg.reg.kind.family
        rsz == Some(arg.reg.size)
        not_vsib == IsNone(arg.index) \/ arg.index[1].reg.kind.family # "XMM"
        is_vsib == IsSome(arg.index) /\ arg.index[1].reg.kind.family = "XMM"
    IN  CASE arg.t = "Immediate" ->
               IF c \in {"i", "o"} THEN yes(Some(ValueSize(arg.value))) ELSE no
          [] arg.t = "JumpTarget" ->
               IF c = "o" THEN yes(arg.size) ELSE no
          [] arg.t = "Direct" ->
               IF c \in LetterSet(LegacyLetters)
               THEN IF fam = "LEGACY" /\ code(arg.reg.kind) = Some(LetterIndex(LegacyLetters, c))
                    THEN yes(rsz) ELSE no
               ELSE IF c \in LetterSet(SegmentLetters)
               THEN IF fam = "SEGMENT" /\ code(arg.reg.kind) = Some(LetterIndex(SegmentLetters, c))
                    THEN yes(rsz) ELSE no
               ELSE IF c = "W" THEN (IF KindIs(arg.reg.kind, RegId("CONTROL", 8)) THEN yes(rsz) ELSE no)
               ELSE IF c = "X" THEN (IF KindIs(arg.reg.kind, RegId("FP", 0)) THEN yes(rsz) ELSE no)
               ELSE IF c \in {"r", "v"} THEN (IF fam \in {"LEGACY", "HIGHBYTE"} THEN yes(rsz) ELSE no)
               ELSE IF c \in {"x", "u"} THEN (IF fam = "MMX" THEN yes(rsz) ELSE no)
               ELSE IF c \in {"y", "w"} THEN (IF fam = "XMM" THEN yes(rsz) ELSE no)
               ELSE IF c = "f" THEN (IF fam = "FP" THEN yes(rsz) ELSE no)
               ELSE IF c = "s" THEN (IF fam = "SEGMENT" THEN yes(rsz) ELSE no)
               ELSE IF c = "c" THEN (IF fam = "CONTROL" THEN yes(rsz) ELSE no)
               ELSE IF c = "d" THEN (IF fam = "DEBUG" THEN yes(rsz) ELSE no)
               ELSE IF c = "b" THEN (IF fam = "BOUND" THEN yes(rsz) ELSE no)
               ELSE no
          [] arg.t = "Indirect" ->
               IF c \in {"m", "u", "v", "w"}
               THEN (IF not_vsib THEN yes(arg.size) ELSE no)
               ELSE IF c = "k"
               THEN (IF is_vsib /\ (IsNone(arg.size) \/ arg.size = Some(DWORD))
                     THEN yes(Some(arg.index[1].reg.size)) ELSE no)
               ELSE IF c = "l"
               THEN (IF is_vsib /\ (IsNone(arg.size) \/ arg.size = Some(QWORD))
                     THEN yes(Some(arg.index[1].reg.size)) ELSE no)
               ELSE no
          [] arg.t = "IndirectJumpTarget" ->
               IF c \in {"m", "u", "v", "w"} THEN yes(arg.size) ELSE no

\* lines 953-981: does an operand of this size fit the slot's size code:
\* "yes", "no", or "panic" for a size code the table must not contain
size_fits(fsize, c, size) ==
    LET b(x) == IF x THEN "yes" ELSE "no"
    IN  CASE fsize = "w" /\ c = "i" -> b(size <= WORD)
          [] fsize = "d" /\ c = "i" -> b(size <= DWORD)
          [] fsize = "q" /\ c = "i" -> b(size <= QWORD)
          [] fsize = "*" /\ c = "i" -> b(size <= DWORD)
          [] fsize = "b" -> b(size = BYTE)
          [] fsize = "w" /\ c # "i" -> b(size = WORD)
          [] fsize = "d" /\ c # "i" -> b(size = DWORD)
          [] fsize = "q" /\ c # "i" -> b(size = QWORD)
          [] fsize = "f" -> b(size = FWORD)
          [] fsize = "p" -> b(size = PWORD)
          [] fsize = "o" -> b(size = OWORD)
          [] fsize = "h" -> b(size = HWORD)
          [] fsize = "*" /\ c \in {"k", "l", "y", "w"} -> b(size \in {OWORD, HWORD})
          [] fsize = "*" /\ c \in {"r", "v"} \cup LetterSet(LegacyLetters) ->
               b(size \in {WORD, DWORD, QWORD})
          [] fsize = "*" /\ c = "m" -> "yes"
          [] fsize = "?" -> "yes"
          [] fsize = "!" -> "no"
          [] OTHER -> "panic"

\* match_slot in which a slot of size ! refuses every operand: a variant C27
\* tells from the code
match_slot_never(fmt, arg, i) ==
    LET s == slot_size(FmtCode(fmt, i), arg)
    IN  IF ~s.ok \/ FmtSize(fmt, i) = "!" THEN "no"
        ELSE IF IsSome(s.size) THEN size_fits(FmtSize(fmt, i), FmtCode(fmt, i), s.size[1])
        ELSE IF FmtSize(fmt, i) # "*" /\ "EXACT_SIZE" \in fmt.flags THEN "no"
        ELSE "yes"

\* one slot of the loop of lines 879-990: "yes", "no" or "panic"
match_slot(fmt, arg, i) ==
    LET s == slot_size(FmtCode(fmt, i), arg)
    IN  IF ~s.ok THEN "no"
        ELSE IF IsSome(s.size) THEN size_fits(FmtSize(fmt, i), FmtCode(fmt, i), s.size[1])
        ELSE IF FmtSize(fmt, i) # "*" /\ "EXACT_SIZE" \in fmt.flags THEN "no"
        ELSE "yes"

RECURSIVE match_slots(_, _, _)
match_slots(fmt, args, i) ==
    IF i > Len(args) THEN "yes"
    ELSE LET m == match_slot(fmt, args[i], i)
         IN  IF m = "yes" THEN match_slots(fmt, args, i + 1) ELSE m

match_format_string(mode, fmt, args) ==
    IF mode # "Protected" /\ "X86_ONLY" \in fmt.flags THEN "no"
    ELSE IF Len(fmt.args) # Len(args) * 2 THEN "no"
    ELSE match_slots(fmt, args, 1)

(***************************************************************************)
(* compiler.rs: size_operands.                                             *)
(* Pass 1 accumulates [st, has_arg, op_size, im_size] with st "ok",        *)
(* "err" (a Generic error) or "panic".                                     *)
(***************************************************************************)
size_pass1_arg(acc, fmt, arg, i) ==
    LET conflict(size) == IsSome(acc.op_size) /\ acc.op_size[1] # size
        unify(size) == IF conflict(size) THEN [acc EXCEPT !.st = "err"]
                       ELSE [acc EXCEPT !.has_arg = TRUE, !.op_size = Some(size)]
        vsize == IF IsSome(arg.index) /\ arg.index[1].reg.kind.family = "XMM"
                 THEN Some(arg.index[1].reg.size) ELSE arg.size
    IN  IF FmtSize(fmt, i) # "*" THEN acc
        ELSE CASE arg.t = "Direct" -> unify(arg.reg.size)
               [] arg.t = "IndirectJumpTarget" ->
                    IF IsSome(arg.size) THEN unify(arg.size[1])
                    ELSE [acc EXCEPT !.has_arg = TRUE]
               [] arg.t = "Indirect" ->
                    IF IsSome(vsize) THEN unify(vsize[1])
                    ELSE [acc EXCEPT !.has_arg = TRUE]
               [] arg.t = "Immediate" ->
                    IF IsSome(acc.im_size) THEN [acc EXCEPT !.st = "panic"]
                    ELSE [acc EXCEPT !.im_size = Some(ValueSize(arg.value))]
               [] arg.t = "JumpTarget" ->
                    IF IsSome(acc.im_size) THEN [acc EXCEPT !.st = "panic"]
                    ELSE [acc EXCEPT !.im_size = arg.size]

RECURSIVE size_pass1(_, _, _, _)
size_pass1(acc, fmt, args, i) ==
    IF i > Len(args) \/ i > Len(fmt.args) \div 2 \/ acc.st # "ok" THEN acc
    ELSE size_pass1(size_pass1_arg(acc, fmt, args[i], i), fmt, args, i + 1)

\* lines 1060-1070
unify_im_size(acc) ==
    IF IsSome(acc.op_size)
    THEN LET o == acc.op_size[1]
             ref_im_size == IF o > DWORD THEN DWORD ELSE o
         IN  IF IsSome(acc.im_size) /\ acc.im_size[1] > ref_im_size
             THEN [acc EXCEPT !.st = "err"]
             ELSE [acc EXCEPT !.im_size = Some(ref_im_size)]
    ELSE IF acc.has_arg THEN [acc EXCEPT !.st = "err"]
    ELSE acc

\* lines 1077-1092: the size of a slot, None where the code panics
\* (unwrap of None, unreachable!())
slot_final_size(fsize, c, op_size, im_size) ==
    CASE fsize = "b" -> Some(BYTE)
      [] fsize = "w" -> Some(WORD)
      [] fsize \notin {"b", "w"} /\ (c = "k" \/ fsize = "d") -> Some(DWORD)
      [] fsize \notin {"b", "w", "d"} /\ c # "k" /\ (c = "l" \/ fsize = "q") -> Some(QWORD)
      [] fsize = "f" /\ c \notin {"k", "l"} -> Some(FWORD)
      [] fsize = "p" /\ c \notin {"k", "l"} -> Some(PWORD)
      [] fsize = "o" /\ c \notin {"k", "l"} -> Some(OWORD)
      [] fsize = "h" /\ c \notin {"k", "l"} -> Some(HWORD)
      [] fsize = "*" /\ c = "i" -> im_size
      [] fsize = "*" /\ c \notin {"k", "l", "i"} -> op_size
      [] fsize = "!" /\ c \notin {"k", "l"} -> Some(BYTE)
      [] OTHER -> None

\* lines 1094-1106
sized_arg(arg, size) == IF arg.t = "JumpTarget" THEN [arg EXCEPT !.size = size] ELSE arg

RECURSIVE size_pass2(_, _, _, _, _)
size_pass2(fmt, args, op_size, im_size, i) ==
    IF i > Len(args) \/ i > Len(fmt.args) \div 2 THEN [st |-> "ok", args |-> <<>>]
    ELSE LET size == slot_final_size(FmtSize(fmt, i), FmtCode(fmt, i), op_size, im_size)
             rest == size_pass2(fmt, args, op_size, im_size, i + 1)
         IN  IF IsNone(size) THEN [st |-> "panic", args |-> <<>>]
             ELSE IF rest.st # "ok" THEN rest
             ELSE [st |-> "ok", args |-> <<sized_arg(args[i], size[1])>> \o rest.args]

size_operands(fmt, args) ==
    LET p1 == unify_im_size(size_pass1([st |-> "ok", has_arg |-> FALSE,
                                        op_size |-> None, im_size |-> None], fmt, args, 1))
        p2 == size_pass2(fmt, args, p1.op_size, p1.im_size, 1)
    IN  IF p1.st # "ok" THEN [st |-> p1.st, op_size |-> None, args |-> <<>>]
        ELSE [st |-> p2.st, op_size |-> p1.op_size, args |-> p2.args]

(***************************************************************************)
(* compiler.rs: get_legacy_prefixes.                                       *)
(* The result is [st, diag, group1, group2], st "ok", "fatal" or "panic".  *)
(***************************************************************************)
prefix_group(fmt, name) ==
    CASE name = "rep" -> IF "REP" \in fmt.flags THEN <<1, 243>> ELSE <<0, 0>>
      [] name \in {"repe", "repz"} -> IF "REPE" \in fmt.flags THEN <<1, 243>> ELSE <<0, 0>>
      [] name \in {"repnz", "repne"} -> IF "REP" \in fmt.flags THEN <<1, 242>> ELSE <<0, 0>>
      [] name = "lock" -> IF "LOCK" \in fmt.flags THEN <<1, 240>> ELSE <<0, 0>>
      [] name = "ss" -> <<2, 54>>
      [] name = "cs" -> <<2, 46>>
      [] name = "ds" -> <<2, 62>>
      [] name = "es" -> <<2, 38>>
      [] name = "fs" -> <<2, 100>>
      [] name = "gs" -> <<2, 101>>
      [] OTHER -> <<3, 0>>

RECURSIVE legacy_prefixes_from(_, _, _, _)
legacy_prefixes_from(fmt, idents, acc, i) ==
    IF i > Len(idents) THEN acc
    ELSE LET g == prefix_group(fmt, idents[i])
         IN  IF g[1] = 3 THEN [acc EXCEPT !.st = "panic"]
             ELSE IF g[1] = 0 THEN [acc EXCEPT !.st = "fatal", !.diag = 1]
             ELSE IF g[1] = 1 /\ IsSome(acc.group1) THEN [acc EXCEPT !.st = "fatal", !.diag = 1]
             ELSE IF g[1] = 2 /\ IsSome(acc.group2) THEN [acc EXCEPT !.st = "fatal", !.diag = 1]
             ELSE legacy_prefixes_from(fmt, idents,
                     IF g[1] = 1 THEN [acc EXCEPT !.group1 = Some(g[2])]
                                 ELSE [acc EXCEPT !.group2 = Some(g[2])], i + 1)

get_legacy_prefixes(fmt, idents) ==
    legacy_prefixes_from(fmt, idents,
        [st |-> "ok", diag |-> 0, group1 |-> None, group2 |-> None], 1)

(***************************************************************************)
(* compiler.rs: check_rex.                                                 *)
(* "mode" is Err(UnsupportedInThisMode), "generic" the high-byte error,    *)
(* "rex" Ok(true), "norex" Ok(false).                                      *)
(***************************************************************************)
arg_requires_rex(arg) ==
    CASE arg.t = "Direct" ->
           /\ arg.reg.kind.family # "HIGHBYTE"
           /\ \/ is_extended(arg.reg.kind)
              \/ /\ arg.reg.size = BYTE
                 /\ \E id \in {RSP, RBP, RSI, RDI} : KindIs(arg.reg.kind, id)
      [] arg.t = "Indirect" ->
           \/ IsSome(arg.base) /\ is_extended(arg.base[1].kind)
           \/ IsSome(arg.index) /\ is_extended(arg.index[1].reg.kind)
      [] OTHER -> FALSE

arg_requires_no_rex(arg) == arg.t = "Direct" /\ arg.reg.kind.family = "HIGHBYTE"

\* the arguments check_rex scans: zipped with the format, lowercase codes only
Scanned(fmt, args) ==
    {i \in 1..Len(args) : i <= Len(fmt.args) \div 2 /\ FmtCode(fmt, i) \in Lowercase}

\* check_rex without the refusal of the high-byte registers: a variant C26
\* tells from the code
check_rex_lenient(mode, fmt, args, rex_w) ==
    IF mode = "Protected" THEN (IF rex_w THEN "mode" ELSE "norex")
    ELSE IF rex_w \/ \E i \in Scanned(fmt, args) : arg_requires_rex(args[i])
         THEN "rex" ELSE "norex"

check_rex(mode, fmt, args, rex_w) ==
    IF mode = "Protected" THEN (IF rex_w THEN "mode" ELSE "norex")
    ELSE LET requires_rex == rex_w \/ \E i \in Scanned(fmt, args) : arg_requires_rex(args[i])
             requires_no_rex == \E i \in Scanned(fmt, args) : arg_requires_no_rex(args[i])
         IN  IF requires_rex /\ requires_no_rex THEN "generic"
             ELSE IF requires_rex THEN "rex" ELSE "norex"

(***************************************************************************)
(* compiler.rs: extract_args.                                              *)
(* The result is [panic, m, r, v, i, immediates]; m, r, v, i are Options.  *)
(***************************************************************************)
MemCodes == {"m", "u", "v", "w", "k", "l"}
RegCodes == {"f", "x", "r", "y", "b"}
RegargCodes == {"c", "d", "s"}

\* positions (in args) of the slots that go to regs, in order
RECURSIVE SelectSlots(_, _, _, _)
SelectSlots(fmt, args, codes, i) ==
    IF i > Len(args) \/ i > Len(fmt.args) \div 2 THEN <<>>
    ELSE (IF FmtCode(fmt, i) \in codes THEN <<i>> ELSE <<>>)
         \o SelectSlots(fmt, args, codes, i + 1)

\* index in regs (0-based) of the first slot with a code of `codes`, or None
FirstRegIndex(fmt, regs, codes) ==
    LET hits == {j \in 1..Len(regs) : FmtCode(fmt, regs[j]) \in codes}
    IN  IF hits = {} THEN None ELSE Some((CHOOSE j \in hits : \A k \in hits : j <= k) - 1)

extract_args(fmt, args) ==
    LET regs == SelectSlots(fmt, args, MemCodes \cup RegCodes \cup RegargCodes, 1)
        imms == SelectSlots(fmt, args, {"i", "o"}, 1)
        nmem == Cardinality({j \in 1..Len(regs) : FmtCode(fmt, regs[j]) \in MemCodes})
        nregarg == Cardinality({j \in 1..Len(regs) : FmtCode(fmt, regs[j]) \in RegargCodes})
        memarg == FirstRegIndex(fmt, regs, MemCodes)
        regarg == FirstRegIndex(fmt, regs, RegargCodes)
        len == Len(regs)
        nth(j) == IF j <= len THEN Some(args[regs[j]]) ELSE None
        out(m, r, v, i) == [panic |-> FALSE, m |-> m, r |-> r, v |-> v, i |-> i,
                            immediates |-> [j \in 1..Len(imms) |-> args[imms[j]]]]
        ENC_MR == "ENC_MR" \in fmt.flags
        ENC_VM == "ENC_VM" \in fmt.flags
    IN  IF nmem > 1 \/ nregarg > 1 \/ len > 4
        THEN [panic |-> TRUE, m |-> None, r |-> None, v |-> None, i |-> None,
              immediates |-> <<>>]
        ELSE IF IsSome(regarg)
             THEN IF regarg[1] = 0 THEN out(nth(2), nth(1), None, None)
                                   ELSE out(nth(1), nth(2), None, None)
        ELSE IF len = 1 THEN out(nth(1), None, None, None)
        ELSE IF len = 2
             THEN IF ENC_MR \/ memarg = Some(0) THEN out(nth(1), nth(2), None, None)
                  ELSE IF ENC_VM THEN out(nth(2), None, nth(1), None)
                  ELSE out(nth(2), nth(1), None, None)
        ELSE IF len = 3
             THEN IF ENC_MR \/ memarg = Some(1) THEN out(nth(2), nth(1), nth(3), None)
                  ELSE IF ENC_VM \/ memarg = Some(0) THEN out(nth(1), nth(3), nth(2), None)
                  ELSE out(nth(3), nth(1), nth(2), None)
        ELSE IF len = 4
             THEN IF ENC_MR \/ memarg = Some(2) THEN out(nth(3), nth(1), nth(2), nth(4))
                  ELSE out(nth(4), nth(1), nth(2), nth(3))
        ELSE out(None, None, None, None)

(***************************************************************************)
(* arch/x64/x64data.rs: the feature bits and an excerpt of the opcode      *)
(* table (format string, opcode bytes, reg field, flags, features).        *)
(***************************************************************************)
FeatureBits == {"AVX", "AESNI", "TDNOW", "AMD", "SSE5"}
FeaturesAll == FeatureBits
FeaturesEmpty == {}
\* Features::from_str: the bit a feature name stands for, None if unknown
FeaturesFromStr(name) ==
    CASE name = "avx" -> Some({"AVX"})
      [] name = "aesni" -> Some({"AESNI"})
      [] name = "tdnow" -> Some({"TDNOW"})
      [] name = "amd" -> Some({"AMD"})
      [] name = "sse5" -> Some({"SSE5"})
      [] OTHER -> None

X == 255

OpTable ==
    [mov |-> <<
        Opdata(<<"v", "*", "r", "*">>, <<137>>, X, {"AUTO_SIZE", "ENC_MR"}, {}),
        Opdata(<<"v", "b", "r", "b">>, <<136>>, X, {"ENC_MR"}, {}),
        Opdata(<<"r", "*", "v", "*">>, <<139>>, X, {"AUTO_SIZE"}, {}),
        Opdata(<<"r", "b", "v", "b">>, <<138>>, X, {}, {}),
        Opdata(<<"r", "b", "i", "b">>, <<176>>, X, {"SHORT_ARG"}, {}),
        Opdata(<<"v", "*", "i", "*">>, <<199>>, 0, {"AUTO_SIZE"}, {}) >>,
     add |-> <<
        Opdata(<<"A", "*", "i", "*">>, <<5>>, X, {"AUTO_SIZE"}, {}),
        Opdata(<<"v", "*", "i", "*">>, <<129>>, 0, {"AUTO_SIZE", "LOCK"}, {}),
        Opdata(<<"v", "*", "r", "*">>, <<1>>, X, {"AUTO_SIZE", "ENC_MR", "LOCK"}, {}) >>,
     push |-> <<
        Opdata(<<"r", "*">>, <<80>>, X, {"AUTO_NO32", "SHORT_ARG"}, {}) >>,
     lea |-> <<
        Opdata(<<"r", "*", "m", "!">>, <<141>>, X, {"AUTO_SIZE"}, {}) >>,
     jmp |-> <<
        Opdata(<<"o", "b">>, <<235>>, X, {"EXACT_SIZE"}, {}),
        Opdata(<<"o", "d">>, <<233>>, X, {}, {}),
        Opdata(<<"v", "*">>, <<255>>, 4, {"AUTO_NO32"}, {}) >>,
     movsb |-> <<
        Opdata(<<>>, <<164>>, X, {"REP"}, {}) >>,
     aaa |-> <<
        Opdata(<<>>, <<55>>, X, {"X86_ONLY"}, {}) >>,
     pfadd |-> <<
        Opdata(<<"x", "q", "u", "q">>, <<15, 15, 158>>, X, {"IMM_OP"}, {"TDNOW"}) >>,
     vaddps |-> <<
        Opdata(<<"y", "*", "y", "*", "w", "*">>, <<1, 88>>, X, {"VEX_OP", "AUTO_VEXL"}, {"AVX"}) >>,
     vaesenc |-> <<
        Opdata(<<"y", "o", "y", "o", "w", "o">>, <<2, 220>>, X, {"VEX_OP"}, {"AVX", "AESNI"}) >>,
     vblendvps |-> <<
        Opdata(<<"y", "*", "y", "*", "w", "*", "y", "*">>, <<3, 74>>, X,
               {"VEX_OP", "AUTO_VEXL"}, {"AVX"}) >>,
     vgatherdps |-> <<
        Opdata(<<"y", "*", "k", "*", "y", "*">>, <<2, 146>>, X,
               {"VEX_OP", "AUTO_VEXL", "ENC_MR"}, {"AVX"}) >>,
     andn |-> <<
        Opdata(<<"r", "*", "r", "*", "v", "*">>, <<2, 242>>, X, {"VEX_OP", "AUTO_REXW"}, {}) >>,
     movsx |-> <<
        Opdata(<<"r", "*", "v", "b">>, <<15, 190>>, X, {"AUTO_SIZE"}, {}) >>,
     vmovmskps |-> <<
        Opdata(<<"r", "?", "y", "*">>, <<1, 80>>, X, {"VEX_OP", "AUTO_VEXL"}, {"AVX"}) >>,
     vmovq |-> <<
        Opdata(<<"y", "o", "v", "q">>, <<1, 110>>, X, {"VEX_OP", "WITH_REXW", "WORD_SIZE"},
               {"AVX"}) >>,
     vfrczps |-> <<
        Opdata(<<"y", "*", "w", "*">>, <<9, 128>>, X, {"XOP_OP", "AUTO_VEXL"},
               {"AMD", "SSE5"}) >>]

get_mnemnonic_data(name) ==
    IF name \in DOMAIN OpTable THEN Some(OpTable[name]) ELSE None

(***************************************************************************)
(* compiler.rs: match_op_format.                                           *)
(* [st, data]: st is "ok", "fatal" (unknown mnemonic, one diagnostic),     *)
(* "generic" (no form matched) or "panic".                                 *)
(***************************************************************************)
RECURSIVE first_match(_, _, _, _)
first_match(mode, data, args, i) ==
    IF i > Len(data) THEN [st |-> "generic", data |-> None]
    ELSE LET m == match_format_string(mode, data[i], args)
         IN  IF m = "yes" THEN [st |-> "ok", data |-> Some(data[i])]
             ELSE IF m = "panic" THEN [st |-> "panic", data |-> None]
             ELSE first_match(mode, data, args, i + 1)

\* an unknown mnemonic reported like a mismatch of the forms: a variant C15
\* tells from the code
match_op_format_mismatch(mode, name, args) ==
    LET data == get_mnemnonic_data(name)
    IN  IF IsNone(data) THEN [st |-> "generic", data |-> None]
        ELSE first_match(mode, data[1], args, 1)

match_op_format(mode, name, args) ==
    LET data == get_mnemnonic_data(name)
    IN  IF IsNone(data) THEN [st |-> "fatal", data |-> None]
        ELSE first_match(mode, data[1], args, 1)

(***************************************************************************)
(* mod.rs: Error.                                                          *)
(***************************************************************************)
NoError == [kind |-> "none"]
Fatal == [kind |-> "Fatal"]
Generic(message) == [kind |-> "Generic", message |-> message]
DisabledFeatures(features) == [kind |-> "DisabledFeatures", features |-> features]
UnsupportedOperandInThisMode(op_size, mode, mode_hint) ==
    [kind |-> "UnsupportedOperandInThisMode", op_size |-> op_size, mode |-> mode,
     mode_hint |-> mode_hint]
UnsupportedInThisMode(mode_hint) == [kind |-> "UnsupportedInThisMode", mode_hint |-> mode_hint]
BadExprCombinator(expr) == [kind |-> "BadExprCombinator", expr |-> expr]

(***************************************************************************)
(* arch/mod.rs: the BasicExprBuilder of State and BasicExprBuilderExt.     *)
(* A combinator returns an Option<Expr>; the _else_err form returns        *)
(* [ok |-> TRUE, e |-> Expr] or [ok |-> FALSE, e |-> the refused Expr].    *)
(***************************************************************************)
\* push at the front of the buffer: a variant C10 tells from the code
push_front(stmts, stmt) == <<stmt>> \o stmts

push(stmts, stmt) == Append(stmts, stmt)
bit_or(a, b) == None
bit_and(a, b) == None
mul(a, b) == None
neg(a) == None
mask_shift(val, m, shift) == None

ok_or_else(r, a) == IF IsSome(r) THEN [ok |-> TRUE, e |-> r[1]] ELSE [ok |-> FALSE, e |-> a]
bit_or_else_err(a, b) == ok_or_else(bit_or(a, b), a)
bit_and_else_err(a, b) == ok_or_else(bit_and(a, b), a)
mul_else_err(a, b) == ok_or_else(mul(a, b), a)
neg_else_err(a) == ok_or_else(neg(a), a)
mask_shift_else_err(val, m, shift) == ok_or_else(mask_shift(val, m, shift), val)

mask_shift_or_else_err(reg, val, m, shift) ==
    LET operand == mask_shift_else_err(val, m, shift)
    IN  IF ~operand.ok THEN operand ELSE bit_or_else_err(operand.e, reg)

mask_shift_inverted_and_else_err(reg, val, m, shift) ==
    LET operand == mask_shift_else_err(val, m, shift)
        negated == neg_else_err(operand.e)
    IN  IF ~operand.ok THEN operand
        ELSE IF ~negated.ok THEN negated
        ELSE bit_and_else_err(negated.e, reg)

(***************************************************************************)
(* compiler.rs: compile_instruction, lines 86-206: everything before the   *)
(* first statement is pushed.                                              *)
(***************************************************************************)
MOD_DIRECT == 3
MOD_NODISP == 0
MOD_NOBASE == 0
MOD_DISP8 == 1
MOD_DISP32 == 2

Intersects(flags, set) == flags \cap set # {}

\* lines 96-113: the address-size prefix, None for the unsupported pairs
pref_addr_of(mode, addr_size) ==
    CASE mode = "Long" /\ addr_size = QWORD -> Some(FALSE)
      [] mode = "Long" /\ addr_size = DWORD -> Some(TRUE)
      [] mode = "Protected" /\ addr_size = DWORD -> Some(FALSE)
      [] mode = "Protected" /\ addr_size = WORD -> Some(TRUE)
      [] OTHER -> None

\* lines 129-189: [st, err, pref_size, rex_w, vex_l]
size_prefixes(mode, data, op_size) ==
    LET out(ps, rw, vl) == [st |-> "ok", err |-> NoError, pref_size |-> ps,
                            rex_w |-> rw, vex_l |-> vl]
        fail(e) == [st |-> "err", err |-> e, pref_size |-> FALSE, rex_w |-> FALSE,
                    vex_l |-> FALSE]
        panic == [st |-> "panic", err |-> NoError, pref_size |-> FALSE, rex_w |-> FALSE,
                  vex_l |-> FALSE]
        s == op_size[1]
    IN  IF ~Intersects(data.flags, {"AUTO_SIZE", "AUTO_NO32", "AUTO_REXW", "AUTO_VEXL"})
        THEN out(FALSE, FALSE, FALSE)
        ELSE IF IsNone(op_size) THEN panic
        ELSE IF mode = "Protected" /\ s = QWORD
             THEN fail(UnsupportedOperandInThisMode(s, "Protected", Some("Long")))
        ELSE IF "AUTO_NO32" \in data.flags
             THEN IF s = WORD THEN out(TRUE, FALSE, FALSE)
                  ELSE IF s = QWORD /\ mode = "Long" THEN out(FALSE, FALSE, FALSE)
                  ELSE IF s = DWORD /\ mode = "Protected" THEN out(FALSE, FALSE, FALSE)
                  ELSE IF s = DWORD /\ mode = "Long"
                       THEN fail(UnsupportedOperandInThisMode(s, "Long", Some("Protected")))
                  ELSE panic
        ELSE IF "AUTO_REXW" \in data.flags
             THEN IF s = QWORD THEN out(FALSE, TRUE, FALSE)
                  ELSE IF s # DWORD THEN fail(UnsupportedOperandInThisMode(s, mode, None))
                  ELSE out(FALSE, FALSE, FALSE)
        ELSE IF "AUTO_VEXL" \in data.flags
             THEN IF s = HWORD THEN out(FALSE, FALSE, TRUE)
                  ELSE IF s # OWORD THEN panic
                  ELSE out(FALSE, FALSE, FALSE)
        ELSE IF s = WORD THEN out(TRUE, FALSE, FALSE)
        ELSE IF s = QWORD THEN out(FALSE, TRUE, FALSE)
        ELSE IF s # DWORD THEN panic
        ELSE out(FALSE, FALSE, FALSE)

\* lines 197-200
mandatory_pref_mod(data, pref_mod) ==
    IF "PREF_F0" \in data.flags THEN Some(240)
    ELSE IF "PREF_F2" \in data.flags THEN Some(242)
    ELSE IF "PREF_F3" \in data.flags THEN Some(243)
    ELSE pref_mod

\* The outcome of lines 86-206: res is "run" with the plan of the encoding,
\* or the call has ended with "Err" or "Panic" before pushing anything.
\* An instruction is [prefixes, op, args].
Ended(res, err, diag) == [res |-> res, err |-> err, diag |-> diag]

\* missing_features reporting all the entry requires: a variant C7 tells from the code
missing_features_all(data, features) == data.features

\* lines 119-121: the features of the entry that are not active
missing_features(data, features) == data.features \ features

\* lines 203-206: check_rex, then extract_args
plan_rex_checked(san, addr_size, data, pre, sp, rex_w, pref_addr, rex, ex) ==
    IF rex = "mode" THEN Ended("Err", UnsupportedInThisMode(Some("Long")), san.diag)
    ELSE IF rex = "generic" THEN Ended("Err", Generic("high byte register"), san.diag)
    ELSE IF ex.panic THEN Ended("Panic", NoError, san.diag)
    ELSE [res |-> "run", err |-> NoError, diag |-> san.diag,
          data |-> data, addr_size |-> addr_size,
          pref_mod |-> mandatory_pref_mod(data, pre.group1), pref_seg |-> pre.group2,
          pref_size |-> sp.pref_size \/ "WORD_SIZE" \in data.flags,
          rex_w |-> rex_w,
          vex_l |-> sp.vex_l \/ "WITH_VEXL" \in data.flags,
          pref_addr |-> pref_addr \/ "PREF_67" \in data.flags,
          need_rex |-> rex = "rex",
          rm |-> ex.m, reg |-> ex.r, vvvv |-> ex.v, ireg |-> ex.i,
          args |-> ex.immediates]

\* lines 129-206
plan_size_prefixed(mode, san, addr_size, data, pre, sized, sp, rex_w, pref_addr) ==
    IF sp.st = "err" THEN Ended("Err", sp.err, san.diag)
    ELSE IF sp.st = "panic" THEN Ended("Panic", NoError, san.diag)
    ELSE plan_rex_checked(san, addr_size, data, pre, sp, rex_w, pref_addr,
                          check_rex(mode, data, sized.args, rex_w),
                          extract_args(data, sized.args))

\* lines 127-193
plan_sized(mode, san, addr_size, data, pre, sized, sp, pref_addr) ==
    IF sized.st = "err" THEN Ended("Err", Generic("operand sizes"), san.diag)
    ELSE IF sized.st = "panic" THEN Ended("Panic", NoError, san.diag)
    ELSE plan_size_prefixed(mode, san, addr_size, data, pre, sized, sp,
                            sp.rex_w \/ "WITH_REXW" \in data.flags, pref_addr)

\* lines 124-127
plan_prefixed(mode, san, addr_size, data, pre, sized, pref_addr) ==
    IF pre.st = "fatal" THEN Ended("Err", Fatal, san.diag + pre.diag)
    ELSE IF pre.st = "panic" THEN Ended("Panic", NoError, san.diag)
    ELSE plan_sized(mode, san, addr_size, data, pre, sized,
                    size_prefixes(mode, data, sized.op_size), pref_addr)

\* lines 118-124
plan_enabled(mode, features, instruction, san, addr_size, data, pref_addr) ==
    IF ~(data.features \subseteq features)
    THEN Ended("Err", DisabledFeatures(missing_features(data, features)), san.diag)
    ELSE plan_prefixed(mode, san, addr_size, data,
                       get_legacy_prefixes(data, instruction.prefixes),
                       size_operands(data, san.args), pref_addr)

\* lines 115-116
plan_matched(mode, features, instruction, san, addr_size, mt, pref_addr) ==
    IF mt.st = "fatal" THEN Ended("Err", Fatal, san.diag + 1)
    ELSE IF mt.st = "generic"
         THEN Ended("Err", Generic("argument type/size mismatch"), san.diag)
    ELSE IF mt.st = "panic" THEN Ended("Panic", NoError, san.diag)
    ELSE plan_enabled(mode, features, instruction, san, addr_size, mt.data[1], pref_addr)

\* lines 101-116
plan_addressed(mode, features, instruction, san, addr_size, pref_addr) ==
    IF IsNone(pref_addr)
    THEN Ended("Err", UnsupportedOperandInThisMode(addr_size, mode, None), san.diag)
    ELSE plan_matched(mode, features, instruction, san, addr_size,
                      match_op_format(mode, instruction.op, san.args), pref_addr[1])

\* lines 96-99
effective_addr_size(mode, addr_size) ==
    IF IsSome(addr_size) THEN addr_size[1]
    ELSE IF mode = "Long" THEN QWORD ELSE DWORD

\* lines 95-113
plan_sanitized(mode, features, instruction, san, addr_size) ==
    IF san.err THEN Ended("Err", Fatal, san.diag)
    ELSE plan_addressed(mode, features, instruction, san, addr_size,
                        pref_addr_of(mode, addr_size))

plan_located(mode, features, instruction, san) ==
    plan_sanitized(mode, features, instruction, san,
                   effective_addr_size(mode, san.addr_size))

plan_instruction(mode, features, instruction) ==
    plan_located(mode, features, instruction,
                 sanitize_indirects_and_sizes(mode, instruction.args))

(***************************************************************************)
(* common.rs: Stmt.  Every statement carries the ghost field role.         *)
(***************************************************************************)
StmtConst(value, role) == [type |-> "Const", value |-> value, role |-> role]
StmtU8(value, role) == StmtConst(ValueByte(value), role)
StmtU32(value, role) == StmtConst(ValueDword(value), role)
StmtExtend(bytes, role) == [type |-> "Extend", bytes |-> bytes, role |-> role]
StmtZeroed(size, role) == StmtConst(ValueNumber(from_u64_and_size(U64(0), size)), role)
StmtExprExtend(value) == [type |-> "ExprExtend", value |-> value, role |-> "directive"]
StmtAlign(value, with) == [type |-> "Align", value |-> value, with |-> with, role |-> "directive"]
StmtExprSigned(value, size) ==
    [type |-> "ExprSigned", value |-> value, size |-> size, role |-> "directive"]

\* Jump::encode
JumpEncode(jump, data) ==
    [type |-> CASE jump.kind = "Global" -> "GlobalJumpTarget"
                [] jump.kind = "Backward" -> "BackwardJumpTarget"
                [] jump.kind = "Forward" -> "ForwardJumpTarget"
                [] jump.kind = "Dynamic" -> "DynamicJumpTarget"
                [] jump.kind = "Bare" -> "BareJumpTarget",
     jump |-> jump, data |-> data, role |-> "reloc"]

JumpTargetTypes == {"GlobalJumpTarget", "BackwardJumpTarget", "ForwardJumpTarget",
                    "DynamicJumpTarget", "BareJumpTarget"}

\* RelocationKind::to_id
to_id(kind) ==
    CASE kind = "Relative" -> 0
      [] kind = "Absolute" -> 1
      [] kind = "Extern" -> 2

(***************************************************************************)
(* The state of one compile_instruction call while it pushes statements:   *)
(* [stmts, res, err, diag, relocs].  relocs is the local Vec of            *)
(* (target, offset, size, kind).                                           *)
(***************************************************************************)
Emit(st, stmt) == IF st.res # "run" THEN st ELSE [st EXCEPT !.stmts = push(@, stmt)]
Fail(st, e) == IF st.res # "run" THEN st ELSE [st EXCEPT !.res = "Err", !.err = e]
PanicSt(st) == IF st.res # "run" THEN st ELSE [st EXCEPT !.res = "Panic"]
Reloc(jump, offset, size, kind) ==
    [jump |-> jump, offset |-> offset, size |-> size, kind |-> kind]
\* a relocation pushed as a statement as soon as it is known: a variant C9
\* tells from the code
AddReloc_eager(st, r) ==
    IF st.res # "run" THEN st
    ELSE [st EXCEPT !.relocs = Append(@, r),
                    !.stmts = Append(@, JumpEncode(r.jump, <<r.offset, in_bytes(r.size)>>))]

AddReloc(st, r) == IF st.res # "run" THEN st ELSE [st EXCEPT !.relocs = Append(@, r)]
\* relocations whose offsets stay as they were pushed: a variant C11 tells
\* from the code
BumpRelocs_skipped(st, n) == st

\* relocations.iter_mut().for_each(|r| r.1 += n)
BumpRelocs(st, n) ==
    IF st.res # "run" THEN st
    ELSE [st EXCEPT !.relocs = [j \in 1..Len(@) |-> [@[j] EXCEPT !.offset = @ + n]]]

\* A byte under construction: [ok, v, e]; v is the Value so far, e the
\* expression of the combinator that refused.
Acc(v) == [ok |-> TRUE, v |-> v, e |-> MkExpr(0, U8)]
DynOr(acc, k, m, shift) ==
    IF ~acc.ok \/ ~is_dynamic(k) THEN acc
    ELSE LET r == mask_shift_or_else_err(acc.v, KindExpr(k), m, shift)
         IN  IF r.ok THEN [ok |-> TRUE, v |-> ValueExpr(r.e), e |-> r.e]
             ELSE [ok |-> FALSE, v |-> acc.v, e |-> r.e]
DynInvAnd(acc, k, m, shift) ==
    IF ~acc.ok \/ ~is_dynamic(k) THEN acc
    ELSE LET r == mask_shift_inverted_and_else_err(acc.v, KindExpr(k), m, shift)
         IN  IF r.ok THEN [ok |-> TRUE, v |-> ValueExpr(r.e), e |-> r.e]
             ELSE [ok |-> FALSE, v |-> acc.v, e |-> r.e]
EmitAcc(st, acc, role) ==
    IF ~acc.ok THEN Fail(st, BadExprCombinator(acc.e)) ELSE Emit(st, StmtConst(acc.v, role))

(***************************************************************************)
(* compiler.rs: compile_modrm_sib, compile_sib_dynscale, compile_rex,      *)
(* compile_vex_xop                                                         *)
(***************************************************************************)
\* modrm_byte with the two register fields swapped: a variant C5 tells from the code
modrm_byte_swapped(mode, reg1, reg2) ==
    OrByte(OrByte(mode * 64, AndByte(encode(reg2), 7) * 8), AndByte(encode(reg1), 7))

modrm_byte(mode, reg1, reg2) ==
    OrByte(OrByte(mode * 64, AndByte(encode(reg1), 7) * 8), AndByte(encode(reg2), 7))

\* compile_modrm_sib pushing the static byte whatever the registers: a
\* variant C16 tells from the code
compile_modrm_sib_static(st, mode, reg1, reg2, role) ==
    Emit(st, StmtU8(modrm_byte(mode, reg1, reg2), role))

compile_modrm_sib(st, mode, reg1, reg2, role) ==
    IF ~is_dynamic(reg1) /\ ~is_dynamic(reg2)
    THEN Emit(st, StmtU8(modrm_byte(mode, reg1, reg2), role))
    ELSE EmitAcc(st, DynOr(DynOr(Acc(ValueByte(modrm_byte(mode, reg1, reg2))),
                                 reg1, 7, 3), reg2, 7, 0), role)

\* With the bridge of State mul refuses, so the call fails before dynscale
\* (which is unimplemented!()) is reached.
compile_sib_dynscale(st, scale, scale_expr, reg1, reg2) ==
    LET byte == DynOr(DynOr(Acc(ValueByte(modrm_byte(0, reg1, reg2))), reg1, 7, 3), reg2, 7, 0)
        scaled == mul_else_err(scale_expr, ValueByte(scale))
    IN  IF ~byte.ok THEN Fail(st, BadExprCombinator(byte.e))
        ELSE IF ~scaled.ok THEN Fail(st, BadExprCombinator(scaled.e))
        ELSE PanicSt(st)

\* the register kinds the REX and VEX prefixes extend (lines 1330-1347, 1394-1407)
reg_kind_of(reg) ==
    IF IsSome(reg) /\ reg[1].t = "Direct" THEN reg[1].reg.kind ELSE from_number(0)
base_kind_of(rm) ==
    IF IsSome(rm) /\ rm[1].t = "Direct" THEN rm[1].reg.kind
    ELSE IF IsSome(rm) /\ rm[1].t = "Indirect" /\ IsSome(rm[1].base) THEN rm[1].base[1].kind
    ELSE from_number(0)
index_kind_of(rm) ==
    IF IsSome(rm) /\ rm[1].t = "Indirect" /\ IsSome(rm[1].index) THEN rm[1].index[1].reg.kind
    ELSE from_number(0)

BoolU8(b) == IF b THEN 1 ELSE 0

\* rex_byte without the X bit: a variant C1 tells from the code
rex_byte_without_index(rex_w, reg_k, index_k, base_k) ==
    OrByte(OrByte(OrByte(64, BoolU8(rex_w) * 8), AndByte(encode(reg_k), 8) \div 2),
           AndByte(encode(base_k), 8) \div 8)

rex_byte(rex_w, reg_k, index_k, base_k) ==
    OrByte(OrByte(OrByte(OrByte(64, BoolU8(rex_w) * 8),
                         AndByte(encode(reg_k), 8) \div 2),
                  AndByte(encode(index_k), 8) \div 4),
           AndByte(encode(base_k), 8) \div 8)

compile_rex(st, rex_w, reg, rm) ==
    LET reg_k == reg_kind_of(reg)
        index_k == index_kind_of(rm)
        base_k == base_kind_of(rm)
        rex == rex_byte(rex_w, reg_k, index_k, base_k)
    IN  IF ~is_dynamic(reg_k) /\ ~is_dynamic(index_k) /\ ~is_dynamic(base_k)
        THEN Emit(st, StmtU8(rex, "rex"))
        ELSE EmitAcc(st, DynOr(DynOr(DynOr(Acc(ValueByte(rex)), reg_k, 8, -1),
                                     index_k, 8, -2), base_k, 8, -3), "rex")

\* vex_byte1 with the inverted R, X and B bits left clear: a variant C6 tells
\* from the code
vex_byte1_clear(mode, map_sel, reg_k, index_k, base_k) == AndByte(map_sel, 31)

vex_byte1(mode, map_sel, reg_k, index_k, base_k) ==
    IF mode = "Long"
    THEN OrByte(OrByte(OrByte(AndByte(map_sel, 31),
                              AndByte(255 - encode(reg_k), 8) * 16),
                       AndByte(255 - encode(index_k), 8) * 8),
                AndByte(255 - encode(base_k), 8) * 4)
    ELSE OrByte(AndByte(map_sel, 31), 224)

vex_byte2(prefix, rex_w, vvvv_k, vex_l) ==
    OrByte(OrByte(OrByte(AndByte(prefix, 3), BoolU8(rex_w) * 128),
                  AndByte(255 - encode(vvvv_k), 15) * 8),
           BoolU8(vex_l) * 4)

\* compile_vex_xop that always takes the three-byte form: a variant C24 tells
\* from the code
compile_vex_xop_long(st, mode, data, reg, rm, map_sel, rex_w, vvvv, vex_l, prefix) ==
    LET zero == from_number(0)
        reg_k == IF mode = "Long" THEN reg_kind_of(reg) ELSE zero
        index_k == IF mode = "Long" THEN index_kind_of(rm) ELSE zero
        base_k == IF mode = "Long" THEN base_kind_of(rm) ELSE zero
        vvvv_k == reg_kind_of(vvvv)
        st3 == Emit(st, StmtU8(IF "VEX_OP" \in data.flags THEN 196 ELSE 143, "vex"))
        st4 == IF mode = "Long" /\ (is_dynamic(reg_k) \/ is_dynamic(index_k) \/ is_dynamic(base_k))
               THEN EmitAcc(st3, DynInvAnd(DynInvAnd(DynInvAnd(
                        Acc(ValueByte(vex_byte1(mode, map_sel, reg_k, index_k, base_k))),
                        reg_k, 8, 4), index_k, 8, 3), base_k, 8, 2), "vex1")
               ELSE Emit(st3, StmtU8(vex_byte1(mode, map_sel, reg_k, index_k, base_k), "vex1"))
    IN  IF is_dynamic(vvvv_k)
        THEN EmitAcc(st4, DynInvAnd(Acc(ValueByte(vex_byte2(prefix, rex_w, vvvv_k, vex_l))),
                                    vvvv_k, 15, 3), "vex2")
        ELSE Emit(st4, StmtU8(vex_byte2(prefix, rex_w, vvvv_k, vex_l), "vex2"))

compile_vex_xop(st, mode, data, reg, rm, map_sel, rex_w, vvvv, vex_l, prefix) ==
    LET zero == from_number(0)
        reg_k == IF mode = "Long" THEN reg_kind_of(reg) ELSE zero
        index_k == IF mode = "Long" THEN index_kind_of(rm) ELSE zero
        base_k == IF mode = "Long" THEN base_kind_of(rm) ELSE zero
        vvvv_k == reg_kind_of(vvvv)
        byte1 == vex_byte1(mode, map_sel, reg_k, index_k, base_k)
        byte2 == vex_byte2(prefix, rex_w, vvvv_k, vex_l)
        short1 == OrByte(AndByte(byte1, 128), AndByte(byte2, 127))
        st3 == Emit(st, StmtU8(IF "VEX_OP" \in data.flags THEN 196 ELSE 143, "vex"))
        st4 == IF mode = "Long" /\ (is_dynamic(reg_k) \/ is_dynamic(index_k) \/ is_dynamic(base_k))
               THEN EmitAcc(st3, DynInvAnd(DynInvAnd(DynInvAnd(Acc(ValueByte(byte1)),
                                 reg_k, 8, 4), index_k, 8, 3), base_k, 8, 2), "vex1")
               ELSE Emit(st3, StmtU8(byte1, "vex1"))
    IN  IF /\ "VEX_OP" \in data.flags
           /\ AndByte(byte1, 127) = 97
           /\ AndByte(byte2, 128) = 0
           /\ ((~is_dynamic(index_k) /\ ~is_dynamic(base_k)) \/ mode = "Protected")
        THEN \* 2-byte vex
             IF ~is_dynamic(reg_k) /\ ~is_dynamic(vvvv_k)
             THEN Emit(Emit(st, StmtU8(197, "vex")), StmtU8(short1, "vex2"))
             ELSE EmitAcc(Emit(st, StmtU8(197, "vex")),
                          DynInvAnd(DynInvAnd(Acc(ValueByte(short1)), reg_k, 8, 4),
                                    vvvv_k, 15, 3), "vex2")
        ELSE IF is_dynamic(vvvv_k)
             THEN EmitAcc(st4, DynInvAnd(Acc(ValueByte(byte2)), vvvv_k, 15, 3), "vex2")
             ELSE Emit(st4, StmtU8(byte2, "vex2"))

(***************************************************************************)
(* compiler.rs: compile_instruction, lines 208-562: the statements.        *)
(***************************************************************************)
\* disp.convert(repr).expect("FIXME"), then push(Stmt::Const(disp))
push_disp(st, disp, repr) ==
    LET r == ValueConvert(disp, repr)
    IN  IF r.st = "some" THEN Emit(st, StmtConst(r.v, "disp")) ELSE PanicSt(st)

\* compile_modrm_sib(ctx, encode_scale(scale).unwrap(), index, base), or
\* compile_sib_dynscale when the scale carries an expression
compile_sib(st, index, base_k) ==
    IF IsSome(index.expr)
    THEN compile_sib_dynscale(st, index.scale % 256, index.expr[1], index.reg.kind, base_k)
    ELSE IF IsNone(encode_scale(index.scale)) THEN PanicSt(st)
    ELSE compile_modrm_sib(st, encode_scale(index.scale)[1], index.reg.kind, base_k, "sib")

\* lines 313-347
compile_vsib(st, reg_k, rm) ==
    LET base_k == IF IsSome(rm.base) THEN rm.base[1].kind ELSE Static(RBP)
        mode == IF IsNone(rm.base) THEN MOD_NOBASE
                ELSE IF IsSome(rm.disp) /\ rm.disp_size = Some(BYTE) THEN MOD_DISP8
                ELSE IF IsSome(rm.disp) THEN MOD_DISP32
                ELSE MOD_DISP8
        st1 == compile_modrm_sib(st, mode, reg_k, Static(RSP), "modrm")
        st2 == compile_sib(st1, rm.index[1], base_k)
    IN  IF IsSome(rm.disp)
        THEN push_disp(st2, rm.disp[1], IF mode = MOD_DISP8 THEN I8 ELSE I32)
        ELSE IF mode = MOD_DISP8 THEN Emit(st2, StmtU8(0, "disp"))
        ELSE Emit(st2, StmtU32(0, "disp"))

\* line 311
mode_rbp_base(base) ==
    OptRegIs(base, RBP) \/ OptRegIs(base, R13) \/ (IsSome(base) /\ is_dynamic(base[1].kind))

\* lines 349-368
compile_16bit(st, reg_k, rm) ==
    LET mode == IF IsSome(rm.disp) /\ rm.disp_size = Some(BYTE) THEN MOD_DISP8
                ELSE IF IsSome(rm.disp) THEN MOD_DISP32
                ELSE IF mode_rbp_base(rm.base) THEN MOD_DISP8 ELSE MOD_NODISP
        st1 == compile_modrm_sib(st, mode, reg_k, rm.base[1].kind, "modrm")
    IN  IF IsNone(rm.base) THEN PanicSt(st)
        ELSE IF IsSome(rm.disp)
             THEN push_disp(st1, rm.disp[1], IF mode = MOD_DISP8 THEN I8 ELSE I16)
        ELSE IF mode = MOD_DISP8 THEN Emit(st1, StmtU8(0, "disp"))
        ELSE st1

\* lines 370-388
compile_rip_relative(st, mode, reg_k, rm) ==
    LET st1 == compile_modrm_sib(st, MOD_NODISP, reg_k, Static(RBP), "modrm")
    IN  IF mode = "Long"
        THEN IF IsSome(rm.disp) THEN push_disp(st1, rm.disp[1], I32)
             ELSE Emit(st1, StmtU32(0, "disp"))
        ELSE AddReloc(Emit(st1, StmtU32(0, "slot")),
                      Reloc(Jump("Bare", None), 0, DWORD, "Absolute"))

\* lines 390-451
compile_normal(st, mode, reg_k, rm) ==
    LET no_base == IsNone(rm.base)
        mod == IF mode_rbp_base(rm.base) /\ IsNone(rm.disp) THEN MOD_DISP8
               ELSE IF IsNone(rm.disp) \/ no_base THEN MOD_NODISP
               ELSE IF rm.disp_size = Some(BYTE) THEN MOD_DISP8
               ELSE MOD_DISP32
        st1 == IF IsSome(rm.index)
               THEN compile_sib(compile_modrm_sib(st, mod, reg_k, Static(RSP), "modrm"),
                                rm.index[1],
                                IF IsSome(rm.base) THEN rm.base[1].kind ELSE Static(RBP))
               ELSE IF IsSome(rm.base)
               THEN compile_modrm_sib(st, mod, reg_k, rm.base[1].kind, "modrm")
               ELSE IF mode = "Protected"
               THEN compile_modrm_sib(st, mod, reg_k, Static(RBP), "modrm")
               ELSE compile_modrm_sib(
                        compile_modrm_sib(st, mod, reg_k, Static(RSP), "modrm"),
                        0, Static(RSP), Static(RBP), "sib")
    IN  IF IsSome(rm.disp)
        THEN push_disp(st1, rm.disp[1], IF mod = MOD_DISP8 THEN I8 ELSE I32)
        ELSE IF no_base THEN Emit(st1, StmtU32(0, "disp"))
        ELSE IF mod = MOD_DISP8 THEN Emit(st1, StmtU8(0, "disp"))
        ELSE st1

\* lines 290-467: the ModRM byte and what follows it
compile_rm(st, mode, p, rm) ==
    LET reg_k == IF IsSome(p.reg) /\ p.reg[1].t = "Direct" THEN p.reg[1].reg.kind
                 ELSE from_number(p.data.reg)
        a == rm[1]
        mode_vsib == IsSome(a.index) /\ a.index[1].reg.kind.family = "XMM"
        mode_16bit == p.addr_size = WORD
        mode_rip_relative == IsSome(a.base) /\ a.base[1].kind.family = "RIP"
    IN  IF IsNone(rm) THEN st
        ELSE IF a.t = "Direct" THEN compile_modrm_sib(st, MOD_DIRECT, reg_k, a.reg.kind, "modrm")
        ELSE IF a.t = "Indirect"
             THEN IF mode_vsib THEN compile_vsib(st, reg_k, a)
                  ELSE IF mode_16bit THEN compile_16bit(st, reg_k, a)
                  ELSE IF mode_rip_relative THEN compile_rip_relative(st, mode, reg_k, a)
                  ELSE compile_normal(st, mode, reg_k, a)
        ELSE IF a.t = "IndirectJumpTarget"
             THEN AddReloc(Emit(compile_modrm_sib(st, MOD_NODISP, reg_k, Static(RBP), "modrm"),
                                StmtU32(0, "slot")),
                           Reloc(a.jump, 0, DWORD,
                                 IF mode = "Long" THEN "Relative" ELSE "Absolute"))
        ELSE st

\* lines 223-263: the prefixes; ops is the opcode without the immediate opcode
compile_prefixes(st, mode, p, ops) ==
    LET st1 == IF IsSome(p.pref_seg) THEN Emit(st, StmtU8(p.pref_seg[1], "pref_seg")) ELSE st
        st2 == IF p.pref_addr THEN Emit(st1, StmtU8(103, "pref_addr")) ELSE st1
        prefix == IF p.pref_size THEN 1
                  ELSE IF p.pref_mod = Some(243) THEN 2
                  ELSE IF p.pref_mod = Some(242) THEN 3
                  ELSE 0
        st3 == IF IsSome(p.pref_mod) THEN Emit(st2, StmtU8(p.pref_mod[1], "pref_mod")) ELSE st2
        st4 == IF p.pref_size THEN Emit(st3, StmtU8(102, "pref_size")) ELSE st3
    IN  IF Intersects(p.data.flags, {"VEX_OP", "XOP_OP"})
        THEN IF ops = <<>> THEN PanicSt(st2)
             ELSE compile_vex_xop(st2, mode, p.data, p.reg, p.rm, ops[1], p.rex_w,
                                  p.vvvv, p.vex_l, prefix)
        ELSE IF p.need_rex
             THEN IF mode = "Protected"
                  THEN Fail(st4, UnsupportedOperandInThisMode(QWORD, "Protected", Some("Long")))
                  ELSE compile_rex(st4, p.rex_w, p.reg, p.rm)
        ELSE st4

\* lines 265-288: the opcode, with the register of a SHORT_ARG form
compile_opcode(st, p, ops) ==
    LET last == ops[Len(ops)]
        head == SubSeq(ops, 1, Len(ops) - 1)
        rm_k == p.rm[1].reg.kind
        st1 == Emit(st, StmtExtend(head, "opcode"))
    IN  IF "SHORT_ARG" \notin p.data.flags THEN Emit(st, StmtExtend(ops, "opcode"))
        ELSE IF ops = <<>> THEN PanicSt(st)
        ELSE IF IsNone(p.rm) \/ p.rm[1].t # "Direct" THEN PanicSt(st1)
        ELSE IF is_dynamic(rm_k)
             THEN EmitAcc(st1, DynOr(Acc(ValueByte(last)), rm_k, 7, 0), "short_op")
        ELSE Emit(st1, StmtU8(last + AndByte(encode(rm_k), 7), "short_op"))

\* lines 469-475: the opcode byte that follows the displacement
compile_immediate_opcode(st, immediate_opcode) ==
    IF IsNone(immediate_opcode) THEN st
    ELSE BumpRelocs(Emit(st, StmtU8(immediate_opcode[1], "imm_opcode")), 1)

\* lines 488-512: the first immediate merged into the register byte;
\* [ok, panic, v, e]
merge_first_immediate(byte, first) ==
    LET out(v) == [ok |-> TRUE, panic |-> FALSE, v |-> v, e |-> MkExpr(0, U8)]
        panic == [ok |-> FALSE, panic |-> TRUE, v |-> byte, e |-> MkExpr(0, U8)]
    IN  IF first.t # "Immediate" THEN panic
        ELSE IF ValueSize(first.value) # BYTE THEN panic
        ELSE IF ~first.value.num
             THEN LET r == mask_shift_or_else_err(byte, first.value.e, 15, 0)
                  IN  IF r.ok THEN out(ValueExpr(r.e))
                      ELSE [ok |-> FALSE, panic |-> FALSE, v |-> byte, e |-> r.e]
        ELSE LET value == AndByte(as_u8(first.value.n), 15)
             IN  IF byte.num THEN out(ValueByte(OrByte(as_u8(byte.n), value)))
                 ELSE LET r == bit_or_else_err(byte.e, ValueByte(value))
                      IN  IF r.ok THEN out(ValueExpr(r.e))
                          ELSE [ok |-> FALSE, panic |-> FALSE, v |-> byte, e |-> r.e]

\* lines 477-518: the register of an immediate argument; [st, args]
compile_ireg(st, ireg, args) ==
    LET k == ireg[1].reg.kind
        byte0 == DynOr(Acc(ValueByte((encode(k) * 16) % 256)), k, 15, 4)
        merged == merge_first_immediate(byte0.v, args[1])
        byte == IF args = <<>> THEN byte0.v ELSE merged.v
        conv == ValueConvert(byte, U8)
        rest == IF args = <<>> THEN args ELSE Tail(args)
    IN  IF IsNone(ireg) \/ ireg[1].t # "Direct" THEN [st |-> st, args |-> args]
        ELSE IF ~byte0.ok THEN [st |-> Fail(st, BadExprCombinator(byte0.e)), args |-> args]
        ELSE IF args # <<>> /\ merged.panic THEN [st |-> PanicSt(st), args |-> rest]
        ELSE IF args # <<>> /\ ~merged.ok
             THEN [st |-> Fail(st, BadExprCombinator(merged.e)), args |-> rest]
        ELSE IF conv.st # "some" THEN [st |-> PanicSt(st), args |-> rest]
        ELSE [st |-> BumpRelocs(Emit(st, StmtConst(conv.v, "ireg")), 1), args |-> rest]

\* an Extern relocation pushed in either mode: a variant C13 tells from the
\* code
compile_immediate_extern_anywhere(st, mode, arg) ==
    IF arg.t = "Immediate"
    THEN BumpRelocs(Emit(st, StmtConst(arg.value, "immediate")), in_bytes(ValueSize(arg.value)))
    ELSE IF arg.t = "JumpTarget"
    THEN AddReloc(BumpRelocs(Emit(st, StmtZeroed(arg.size, "slot")), in_bytes(arg.size)),
                  Reloc(arg.jump, 0, arg.size,
                        IF arg.jump.kind = "Bare" THEN "Extern" ELSE "Relative"))
    ELSE PanicSt(st)

\* lines 521-548: one immediate argument
compile_immediate(st, mode, arg) ==
    IF arg.t = "Immediate"
    THEN BumpRelocs(Emit(st, StmtConst(arg.value, "immediate")), in_bytes(ValueSize(arg.value)))
    ELSE IF arg.t = "JumpTarget"
    THEN LET st1 == BumpRelocs(Emit(st, StmtZeroed(arg.size, "slot")), in_bytes(arg.size))
         IN  IF arg.jump.kind = "Bare"
             THEN IF mode = "Protected"
                  THEN AddReloc(st1, Reloc(arg.jump, 0, arg.size, "Extern"))
                  ELSE Fail(st1, Generic("Extern relocations are not supported in x64 mode"))
             ELSE AddReloc(st1, Reloc(arg.jump, 0, arg.size, "Relative"))
    ELSE PanicSt(st)

RECURSIVE compile_immediates(_, _, _)
compile_immediates(st, mode, args) ==
    IF args = <<>> THEN st
    ELSE compile_immediates(compile_immediate(st, mode, args[1]), mode, Tail(args))

\* a payload that carries the kind id in both modes: a variant C12 tells from
\* the code
reloc_data_with_kind(mode, r) == <<r.offset, in_bytes(r.size), to_id(r.kind)>>

\* lines 550-559
reloc_data(mode, r) ==
    IF mode = "Protected" THEN <<r.offset, in_bytes(r.size), to_id(r.kind)>>
    ELSE <<r.offset, in_bytes(r.size)>>

RECURSIVE push_relocations(_, _, _)
push_relocations(st, mode, relocs) ==
    IF relocs = <<>> THEN st
    ELSE push_relocations(Emit(st, JumpEncode(relocs[1].jump, reloc_data(mode, relocs[1]))),
                          mode, Tail(relocs))

\* lines 212-221: data.ops without the immediate opcode, and that opcode
opcode_bytes(data) ==
    IF "IMM_OP" \in data.flags THEN SubSeq(data.ops, 1, Len(data.ops) - 1) ELSE data.ops
immediate_opcode(data) ==
    IF "IMM_OP" \in data.flags THEN Some(data.ops[Len(data.ops)]) ELSE None

\* lines 239-240: the opcode after the map selector of a VEX/XOP form
opcode_tail(data, ops) ==
    IF Intersects(data.flags, {"VEX_OP", "XOP_OP"}) THEN Tail(ops) ELSE ops

\* line 271: rm.take()
rm_after_opcode(p) == IF "SHORT_ARG" \in p.data.flags THEN None ELSE p.rm

\* lines 520-559
compile_rest(ir, mode) == compile_immediates(ir.st, mode, ir.args)
push_all_relocations(st, mode) == push_relocations(st, mode, st.relocs)

\* line 561
finish(st) == IF st.res = "run" THEN [st EXCEPT !.res = "Ok"] ELSE st

\* lines 208-562 for the plan p of lines 86-206
compile_planned(mode, st, p, ops) ==
    IF "IMM_OP" \in p.data.flags /\ p.data.ops = <<>> THEN PanicSt(st)
    ELSE finish(push_all_relocations(
           compile_rest(
             compile_ireg(
               compile_immediate_opcode(
                 compile_rm(
                   compile_opcode(compile_prefixes(st, mode, p, ops), p,
                                  opcode_tail(p.data, ops)),
                   mode, p, rm_after_opcode(p)),
                 immediate_opcode(p.data)),
               p.ireg, p.args),
             mode),
           mode))

StartSt(stmts, res, err, diag) ==
    [stmts |-> stmts, res |-> res, err |-> err, diag |-> diag, relocs |-> <<>>]

compile_with_plan(mode, stmts, p) ==
    IF p.res # "run" THEN StartSt(stmts, p.res, p.err, p.diag)
    ELSE compile_planned(mode, StartSt(stmts, "run", NoError, p.diag), p,
                         opcode_bytes(p.data))

\* compile_instruction: the statements of ctx.state after the call, and the
\* outcome of the call: "Ok", "Err" (with err) or "Panic".
compile_instruction(mode, features, stmts, instruction) ==
    compile_with_plan(mode, stmts, plan_instruction(mode, features, instruction))

(***************************************************************************)
(* arch/x64/mod.rs: Archx64, Archx86; arch/mod.rs: from_str;               *)
(* directive.rs: evaluate_directive                                        *)
(***************************************************************************)
Archx64 == [name |-> "x64", features |-> FeaturesAll]
Archx86 == [name |-> "x86", features |-> FeaturesAll]

\* arch::from_str, for the names of the x86 family
from_str(s) ==
    CASE s = "x64" -> Some(Archx64)
      [] s = "x86" -> Some(Archx86)
      [] OTHER -> None

\* the mode the compile_instruction wrapper of the architecture passes on
ModeOf(arch) == IF arch.name = "x64" THEN "Long" ELSE "Protected"

\* the loop of set_features: new_features |= from_str(ident), unknown names skipped
RECURSIVE fold_features(_, _)
fold_features(new_features, features) ==
    IF features = <<>> THEN new_features
    ELSE LET f == FeaturesFromStr(features[1])
         IN  fold_features(IF IsSome(f) THEN new_features \cup f[1] ELSE new_features,
                           Tail(features))

\* set_features adding to the active set: a variant C8 tells from the code
set_features_accumulating(arch, features) ==
    [arch EXCEPT !.features = fold_features(@, features)]

\* Archx64::set_features and Archx86::set_features
set_features(arch, features) ==
    [arch EXCEPT !.features = fold_features(FeaturesEmpty, features)]

\* evaluate_directive, Directive::Feature: the list handed to set_features
\* Arch::handle_static_reloc of Archx64 and of Archx86
handle_static_reloc(arch, list, reloc, size) ==
    LET data == IF arch.name = "x64" THEN <<0, in_bytes(size)>> ELSE <<0, in_bytes(size), 0>>
    IN  push(push(list, StmtZeroed(size, "slot")), JumpEncode(reloc, data))

\* common.rs: Const
Relocate(jump) == [t |-> "Relocate", jump |-> jump]
ConstValue(expr) == [t |-> "Value", expr |-> expr]

\* directive.rs: directive_const
RECURSIVE directive_const(_, _, _, _)
directive_const(arch, list, values, size) ==
    IF values = <<>> THEN list
    ELSE directive_const(
             arch,
             IF values[1].t = "Relocate"
             THEN handle_static_reloc(arch, list, values[1].jump, size)
             ELSE push(list, StmtExprSigned(ValueExpr(values[1].expr), size)),
             Tail(values), size)

feature_argument(features) ==
    IF Len(features) = 1 /\ features[1] = "none" THEN <<>> ELSE features

default_align == 144

(***************************************************************************)
(* The state: the architecture of the file (DynasmData.current_arch), the  *)
(* statement buffer of the invocation (State.stmts), whether the           *)
(* invocation still takes statements, and what the last operation was      *)
(* called with and returned.                                               *)
(***************************************************************************)
VARIABLES current_arch, stmts, pc, last

vars == <<current_arch, stmts, pc, last>>

NoInstruction == [prefixes |-> <<>>, op |-> "", args |-> <<>>]

\* op is the operation, instr and list its argument (of a data directive the
\* size and the constants), res and err what it
\* returned, diag the count of emit_error_at calls, relocs the relocations the
\* call held when it returned, pre the buffer before it.
Last(op, instr, list, res, err, diag, relocs, pre) ==
    [op |-> op, instr |-> instr, list |-> list, res |-> res, err |-> err,
     diag |-> diag, relocs |-> relocs, pre |-> pre]

Init ==
    /\ current_arch \in {Archx64, Archx86}
    /\ stmts = <<>>
    /\ pc = "open"
    /\ last = Last("init", NoInstruction, <<>>, "none", NoError, 0, <<>>, <<>>)

(***************************************************************************)
(* The inputs: the instructions handed to compile_instruction.             *)
(***************************************************************************)
Instr(prefixes, op, args) == [prefixes |-> prefixes, op |-> op, args |-> args]
Reg(size, id) == Direct(new_static(size, id))
DynReg(size, fam, idx) == Direct(Register(size, Dynamic(fam, idx)))
Mem(base, index, disp) == Indirect(FALSE, None, None, base, index, disp)

\* al, ah, spl, r8b, ax, eax, r8d, rax, rbx, r12 and a dynamic dword register
GprOperands ==
    {Reg(BYTE, RAX), Reg(BYTE, AH), Reg(BYTE, RSP), Reg(BYTE, R8), Reg(WORD, RAX),
     Reg(DWORD, RAX), Reg(DWORD, R8), Reg(QWORD, RAX), Reg(QWORD, RBX),
     Reg(QWORD, R12), DynReg(DWORD, "LEGACY", 1)}

Bases ==
    {None, Some(Register(QWORD, Dynamic("LEGACY", 2)))}
    \cup {Some(new_static(QWORD, id)) : id \in {RBX, RSP, RBP, R12, R13, RIP}}
    \cup {Some(new_static(DWORD, id)) : id \in {RBX, RSP, R12}}

Indexes ==
    {None,
     Some(Index(new_static(QWORD, RCX), 4, None)),
     Some(Index(new_static(QWORD, R9), 2, None)),
     Some(Index(new_static(DWORD, R9), 1, None))}

\* no displacement, the literal 0x10, and a byte-sized expression
Disps == {None, Some(ValueByte(16)), Some(ValueExpr(MkExpr(3, I8)))}

MemOperands == {Mem(b, i, d) : b \in Bases, i \in Indexes, d \in Disps}

\* a few memory operands for the instructions that are not mov
FewMems ==
    {Mem(Some(new_static(QWORD, RBX)), None, None),
     Mem(Some(new_static(DWORD, RBX)), Some(Index(new_static(DWORD, R9), 1, None)), None),
     Mem(Some(new_static(QWORD, RBX)), Some(Index(new_static(QWORD, R9), 2, None)), None),
     Mem(Some(new_static(QWORD, RIP)), None, None),
     Mem(Some(new_static(DWORD, RIP)), None, None),
     Mem(None, None, Some(ValueExpr(MkExpr(3, I8))))}

Jumps == {Jump(k, None) : k \in {"Global", "Forward", "Backward", "Dynamic", "Bare"}}

Immediates ==
    {Immediate(ValueByte(7)), Immediate(ValueDword(7)), Immediate(ValueExpr(MkExpr(4, U8))),
     Immediate(ValueExpr(MkExpr(5, U32)))}

\* memory operands with a displacement size: [BYTE rbx] without a
\* displacement, [WORD rbx + e], [BYTE rbx + e], [rbx + rcx*3 + e]
SizedDispMems ==
    {Indirect(FALSE, None, Some(BYTE), Some(new_static(QWORD, RBX)), None, None),
     Indirect(FALSE, None, Some(WORD), Some(new_static(QWORD, RBX)), None,
              Some(ValueExpr(MkExpr(3, I8)))),
     Indirect(FALSE, None, Some(BYTE), Some(new_static(QWORD, RBX)), None,
              Some(ValueExpr(MkExpr(3, I8)))),
     Mem(Some(new_static(QWORD, RBX)), Some(Index(new_static(QWORD, RCX), 3, None)),
         Some(ValueExpr(MkExpr(3, I8)))),
     Mem(Some(new_static(QWORD, RBX)), None, Some(ValueExpr(MkExpr(6, I32))))}

\* operands with a sole index: [rcx*s], [rbp*2], {nosplit} [rcx*s], [rcx*2*e]
SoleIndexMems ==
    {Mem(None, Some(Index(new_static(QWORD, RCX), sc, None)), None) :
        sc \in {1, 2, 3, 4, 5, 8, 9}}
    \cup {Indirect(TRUE, None, None, None, Some(Index(new_static(QWORD, RCX), sc, None)), None) :
            sc \in {2, 5}}
    \cup {Mem(None, Some(Index(new_static(QWORD, RBP), 2, None)), None),
          Mem(None, Some(Index(new_static(DWORD, RCX), 3, None)), None),
          Mem(None, Some(Index(new_static(QWORD, RCX), 2, Some(MkExpr(7, U8)))), None)}

\* operands with rsp or esp in the index slot
RspIndexMems ==
    {Mem(b, Some(Index(new_static(QWORD, RSP), sc, None)), None) :
        b \in {None, Some(new_static(QWORD, RBX)), Some(new_static(QWORD, RSP)),
               Some(new_static(QWORD, R12)), Some(Register(QWORD, Dynamic("LEGACY", 2)))},
        sc \in {1, 2}}
    \cup {Mem(Some(new_static(QWORD, RBX)),
              Some(Index(new_static(QWORD, RSP), 1, Some(MkExpr(7, U8)))), None),
          Mem(Some(new_static(DWORD, RBX)), Some(Index(new_static(DWORD, RSP), 1, None)), None),
          Mem(None, Some(Index(new_static(DWORD, RSP), 1, None)), None),
          Indirect(TRUE, None, None, None, Some(Index(new_static(QWORD, RSP), 2, None)), None)}

\* [rbx + rcx*e] with a dynamic scale, [ebx + r*4] with a dynamic index
DynamicMems ==
    {Mem(Some(new_static(QWORD, RBX)),
         Some(Index(new_static(QWORD, RCX), 4, Some(MkExpr(7, U8)))), None),
     Mem(Some(new_static(DWORD, RBX)),
         Some(Index(Register(DWORD, Dynamic("LEGACY", 8)), 4, None)), None)}

\* memory operands of 16-bit registers: bx, bp, si, di, ax and a dynamic
\* register as base and as index, with scale 1 and 2, and a displacement
Bases16 == {None} \cup {Some(new_static(WORD, id)) : id \in {RBX, RBP, RSI, RDI, RAX}}
Indexes16 ==
    {None, Some(Index(new_static(WORD, RSI), 2, None)),
     Some(Index(Register(WORD, Dynamic("LEGACY", 9)), 1, None))}
    \cup {Some(Index(new_static(WORD, id), 1, None)) : id \in {RBX, RBP, RSI, RDI, RAX}}
Mems16 ==
    ({Mem(b, i, None) : b \in Bases16, i \in Indexes16} \ {Mem(None, None, None)})
    \cup {Mem(Some(new_static(WORD, id)), None, Some(ValueExpr(MkExpr(3, I8)))) :
            id \in {RBP, RBX}}

\* the memory operands next to ah: [rbx], [r12], [rbx + r9*2], [ebx]
HighByteMems ==
    {Mem(Some(new_static(QWORD, RBX)), None, None),
     Mem(Some(new_static(QWORD, R12)), None, None),
     Mem(Some(new_static(QWORD, RBX)), Some(Index(new_static(QWORD, R9), 2, None)), None),
     Mem(Some(new_static(DWORD, RBX)), None, None)}

MovInstructions ==
    {Instr(<<>>, "mov", <<a, b>>) : a \in GprOperands, b \in GprOperands}
    \cup {Instr(<<>>, "mov", <<Reg(DWORD, RAX), m>>) : m \in Mems16}
    \cup {Instr(<<>>, "mov", <<Reg(BYTE, AH), m>>) : m \in HighByteMems}
    \cup {Instr(<<>>, "movsx", <<Reg(s, RAX), b>>) :
            s \in {DWORD, QWORD}, b \in {Reg(BYTE, AH), Reg(BYTE, RAX), Reg(BYTE, RSI)}}
    \cup {Instr(<<>>, "mov", <<Reg(DWORD, RAX), m>>) : m \in DynamicMems}
    \cup {Instr(<<>>, "mov", <<Reg(DWORD, RAX), m>>) : m \in SizedDispMems \cup RspIndexMems \cup SoleIndexMems}
    \cup {Instr(<<>>, "mov", <<m, n>>) : m \in FewMems, n \in FewMems}
    \cup {Instr(<<>>, "mov", <<r, m>>) : r \in {Reg(DWORD, RAX), Reg(DWORD, R8)},
                                        m \in MemOperands}
    \cup {Instr(<<>>, "mov", <<m, Reg(DWORD, R8)>>) : m \in FewMems}
    \cup {Instr(<<>>, "mov", <<r, i>>) :
            r \in {Reg(BYTE, RAX), Reg(BYTE, R8), Reg(DWORD, RAX), Reg(QWORD, R12)},
            i \in Immediates}

LegacyInstructions ==
    {Instr(p, "add", <<m, r>>) : p \in {<<>>, <<"lock">>, <<"rep">>, <<"fs">>},
                                m \in FewMems, r \in {Reg(DWORD, RAX), Reg(QWORD, R12)}}
    \cup {Instr(<<>>, "add", <<r, i>>) : r \in {Reg(DWORD, RAX), Reg(QWORD, R12)},
                                        i \in Immediates}
    \cup {Instr(<<>>, "lea", <<Reg(QWORD, R12), m>>) : m \in FewMems}
    \cup {Instr(<<>>, "lea", <<Reg(QWORD, R12),
                               Indirect(FALSE, Some(size), None, Some(new_static(QWORD, RBX)),
                                        None, None)>>) : size \in {BYTE, QWORD}}
    \cup {Instr(<<>>, "push", <<r>>) :
            r \in {Reg(QWORD, RAX), Reg(QWORD, R8), Reg(DWORD, RAX), Reg(WORD, RAX),
                   DynReg(QWORD, "LEGACY", 1)}}
    \cup {Instr(p, "movsb", <<>>) : p \in {<<>>, <<"rep">>, <<"lock">>, <<"rep", "repne">>}}
    \cup {Instr(<<>>, op, <<>>) : op \in {"aaa", "frobnicate"}}
    \cup {Instr(<<>>, "frobnicate", <<Reg(DWORD, RAX), m>>) : m \in FewMems}
    \cup {Instr(<<>>, "pfadd", <<Reg(QWORD, MMX0), a>>) :
            a \in {Reg(QWORD, MMX1)} \cup FewMems}

\* mov dword [->l], imm and pfadd mm0, [->l]: bytes that follow a relocated slot
SlotInstructions ==
    {Instr(<<>>, "mov", <<IndirectJumpTarget(j, Some(DWORD)), i>>) :
        j \in {Jump("Forward", None), Jump("Bare", None)}, i \in Immediates}
    \cup {Instr(<<>>, "pfadd", <<Reg(QWORD, MMX0), IndirectJumpTarget(Jump("Global", None), None)>>)}

JumpInstructions ==
    SlotInstructions
    \cup {Instr(<<>>, "jmp", <<JumpTarget(j, s)>>) : j \in Jumps, s \in {None, Some(BYTE), Some(DWORD)}}
    \cup {Instr(<<>>, "jmp", <<IndirectJumpTarget(j, s)>>) : j \in Jumps, s \in {None, Some(QWORD)}}
    \cup {Instr(<<>>, "jmp", <<a>>) : a \in {Reg(QWORD, RAX), Reg(DWORD, R8)} \cup FewMems}

XmmOperands ==
    {Reg(OWORD, XMM0), Reg(OWORD, XMM1), Reg(OWORD, XMM9), Reg(HWORD, XMM1),
     DynReg(OWORD, "XMM", 6)}

VsibMems ==
    {Mem(b, Some(Index(new_static(OWORD, x), 1, None)), None) :
        b \in {None, Some(new_static(QWORD, RBX)), Some(new_static(DWORD, RBX)),
               Some(new_static(DWORD, R12))},
        x \in {XMM1, XMM9}}

VexInstructions ==
    {Instr(<<>>, "vaddps", <<a, Reg(OWORD, XMM1), c>>) :
        a \in {Reg(OWORD, XMM0), Reg(OWORD, XMM9)}, c \in XmmOperands \cup FewMems}
    \cup {Instr(<<>>, "vaesenc", <<Reg(OWORD, XMM0), b, c>>) :
            b \in {Reg(OWORD, XMM1), Reg(OWORD, XMM9)}, c \in {Reg(OWORD, XMM2)} \cup FewMems}
    \cup {Instr(<<>>, "vblendvps", <<Reg(OWORD, XMM0), Reg(OWORD, XMM1), c, d>>) :
            c \in {Reg(OWORD, XMM2), IndirectJumpTarget(Jump("Forward", None), None)}
                  \cup FewMems,
            d \in XmmOperands \ {Reg(HWORD, XMM1)}}
    \cup {Instr(<<>>, "vblendvps",
                <<Reg(OWORD, XMM0), Reg(OWORD, XMM1),
                  Mem(Some(new_static(QWORD, RBX)), None, Some(ValueByte(16))),
                  DynReg(OWORD, "XMM", 6)>>)}
    \cup {Instr(<<>>, "vgatherdps", <<Reg(OWORD, XMM0), m, Reg(OWORD, XMM1)>>) : m \in VsibMems}
    \cup {Instr(<<>>, "andn", <<Reg(s, R8), Reg(s, RBX), c>>) :
            s \in {DWORD, QWORD}, c \in {Reg(DWORD, R12), Reg(QWORD, R12)} \cup FewMems}
    \cup {Instr(<<>>, "vmovmskps", <<Reg(s, RAX), Reg(OWORD, XMM1)>>) :
            s \in {BYTE, DWORD, QWORD}}
    \cup {Instr(<<>>, "vmovq", <<a, c>>) :
            a \in {Reg(OWORD, XMM0), Reg(OWORD, XMM9)},
            c \in {Reg(QWORD, RAX), Reg(QWORD, R12),
                   Mem(Some(new_static(QWORD, RBX)), None, None)}}
    \cup {Instr(<<>>, "vfrczps", <<a, c>>) :
            a \in {Reg(OWORD, XMM0), Reg(OWORD, XMM9)},
            c \in {Reg(OWORD, XMM1), Mem(Some(new_static(QWORD, RBX)), None, None),
                   Mem(Some(new_static(QWORD, RBX)),
                       Some(Index(new_static(QWORD, R9), 2, None)), None)}}

Instructions ==
    MovInstructions \cup LegacyInstructions \cup JumpInstructions \cup VexInstructions

\* the instructions of the runs that compile several on one buffer
SeqInstructions ==
    {Instr(<<>>, "mov", <<Reg(QWORD, RAX), Reg(QWORD, RBX)>>),
     Instr(<<>>, "mov", <<Reg(DWORD, RAX),
                          Mem(Some(new_static(QWORD, RBX)), None, Some(ValueByte(16)))>>),
     Instr(<<>>, "jmp", <<JumpTarget(Jump("Bare", None), Some(DWORD))>>),
     Instr(<<>>, "jmp", <<JumpTarget(Jump("Forward", None), None)>>),
     Instr(<<>>, "vaesenc", <<Reg(OWORD, XMM0), Reg(OWORD, XMM1), Reg(OWORD, XMM2)>>),
     Instr(<<>>, "frobnicate", <<>>)}

ArchNames == {"x64", "x86", "arm"}
FeatureNames == {"avx", "aesni", "tdnow", "sse9"}
MaxFeatureList == 2
MaxStmts == 4

RECURSIVE ListsUpTo(_, _)
ListsUpTo(names, n) ==
    IF n = 0 THEN {<<>>}
    ELSE LET shorter == ListsUpTo(names, n - 1)
         IN  shorter \cup {Append(l, x) : l \in {k \in shorter : Len(k) = n - 1}, x \in names}

FeatureLists == ListsUpTo(FeatureNames, MaxFeatureList) \cup {<<"none">>}

(***************************************************************************)
(* The actions                                                             *)
(***************************************************************************)
\* evaluate_directive, Directive::Arch
ArchDirective(arch) ==
    /\ pc = "open"
    /\ \E a \in {from_str(arch)} :
           /\ current_arch' = IF IsSome(a) THEN a[1] ELSE current_arch
           /\ last' = Last("arch", NoInstruction, <<arch>>,
                           IF IsSome(a) THEN "Ok" ELSE "Err",
                           IF IsSome(a) THEN NoError ELSE [kind |-> "UnknownArchitecture"],
                           0, <<>>, stmts)
    /\ UNCHANGED <<stmts, pc>>

\* evaluate_directive, Directive::Feature
FeatureDirective(features) ==
    /\ pc = "open"
    /\ current_arch' = set_features(current_arch, feature_argument(features))
    /\ last' = Last("feature", NoInstruction, feature_argument(features),
                    "Ok", NoError, 0, <<>>, stmts)
    /\ UNCHANGED <<stmts, pc>>

\* evaluate_directive, Directive::Byte
ByteDirective(expr) ==
    /\ pc = "open"
    /\ Len(stmts) < MaxStmts
    /\ stmts' = push(stmts, StmtExprExtend(ValueExpr(expr)))
    /\ last' = Last("byte", NoInstruction, <<>>, "Ok", NoError, 0, <<>>, stmts)
    /\ UNCHANGED <<current_arch, pc>>

\* evaluate_directive, Directive::Align
AlignDirective(value, with) ==
    /\ pc = "open"
    /\ Len(stmts) < MaxStmts
    /\ stmts' = push(stmts, StmtAlign(value, IF IsSome(with) THEN ValueExpr(with[1])
                                             ELSE ValueByte(default_align)))
    /\ last' = Last("align", NoInstruction, <<>>, "Ok", NoError, 0, <<>>, stmts)
    /\ UNCHANGED <<current_arch, pc>>

\* evaluate_directive, Directive::Data; more: the invocation goes on
DataDirective(size, consts, more) ==
    /\ pc = "open"
    /\ stmts' = directive_const(current_arch, stmts, consts, size)
    /\ last' = Last("data", NoInstruction, <<size, consts>>, "Ok", NoError, 0, <<>>, stmts)
    /\ pc' = IF more THEN "open" ELSE "closed"
    /\ UNCHANGED current_arch

\* AssembleX64::compile_instruction and AssembleX86::compile_instruction;
\* more: the invocation goes on after the instruction unless it panicked
CompileInstruction(instruction, more) ==
    /\ pc = "open"
    /\ \E r \in {compile_instruction(ModeOf(current_arch), current_arch.features,
                                     stmts, instruction)} :
           /\ stmts' = r.stmts
           /\ last' = Last("compile", instruction, <<>>, r.res, r.err, r.diag, r.relocs, stmts)
           /\ pc' = IF more /\ r.res # "Panic" THEN "open" ELSE "closed"
    /\ UNCHANGED current_arch

\* the data directives of the runs: a size and a list of constants
DataSizes == {BYTE, DWORD}
DataLists ==
    {<<Relocate(Jump("Forward", None))>>,
     <<ConstValue(MkExpr(6, I32)), Relocate(Jump("Bare", None))>>}

\* the only statement of an invocation
Data == \E size \in DataSizes, consts \in DataLists : DataDirective(size, consts, FALSE)

\* one more statement of an invocation
DataNext ==
    /\ Len(stmts) < MaxStmts
    /\ DataDirective(DWORD, <<Relocate(Jump("Forward", None))>>, TRUE)

\* the only instruction of an invocation
Compile == \E instruction \in Instructions : CompileInstruction(instruction, FALSE)

\* one more instruction of an invocation
CompileNext ==
    /\ Len(stmts) < MaxStmts
    /\ \E instruction \in SeqInstructions : CompileInstruction(instruction, TRUE)

\* the next invocation of the same file: a new buffer, the same DynasmData
NewInvocation ==
    /\ pc = "closed" \/ stmts # <<>>
    /\ stmts' = <<>>
    /\ pc' = "open"
    /\ last' = Last("new", NoInstruction, <<>>, "none", NoError, 0, <<>>, <<>>)
    /\ UNCHANGED current_arch

Directives ==
    \/ \E arch \in ArchNames : ArchDirective(arch)
    \/ \E features \in FeatureLists : FeatureDirective(features)

Next ==
    \/ Directives
    \/ Data
    \/ Compile
    \/ NewInvocation

Spec == Init /\ [][Next]_vars

\* the runs of several statements on one buffer; of the feature lists only
\* the empty one and avx
NextSeq ==
    \/ \E arch \in ArchNames : ArchDirective(arch)
    \/ \E features \in {<<>>, <<"avx">>} : FeatureDirective(features)
    \/ ByteDirective(MkExpr(1, U8))
    \/ \E with \in {None, Some(MkExpr(2, U8))} : AlignDirective(MkExpr(1, U8), with)
    \/ DataNext
    \/ CompileNext
    \/ NewInvocation

SpecSeq == Init /\ [][NextSeq]_vars

(***************************************************************************)
(* Number on its own: a Number made by a constructor and the operations    *)
(* applied to it.  last is [op, src, arg, res, n]: the operation, the      *)
(* Number it was called on, its argument, "ok", "some", "none" or "panic", *)
(* and the Number the program holds afterwards (src when the operation     *)
(* returned none).                                                         *)
(***************************************************************************)
NumLast(op, src, arg, res, n) == [op |-> op, src |-> src, arg |-> arg, res |-> res, n |-> n]

\* 0, 0x10, 0x7F, 0x80, 0xFF, 0x1FF, -128 and -1 as u64
NumberValues ==
    {U64(0), U64(16), U64(127), U64(128), U64(255), U64(511), Not64(U64(127)), AllOnes}
NumberSizes == {BYTE, WORD, DWORD, QWORD}
NumberReprs == {NumericRepr(size, signed) : size \in NumberSizes, signed \in BOOLEAN}

InitNumber ==
    /\ current_arch = Archx64
    /\ stmts = <<>>
    /\ pc = "number"
    /\ \E value \in NumberValues, repr \in NumberReprs :
           \E n \in {from_u64_and_repr(value, repr)} :
               last = NumLast("from_u64_and_repr", n, repr, "ok", n)

\* Number::from_u64_and_repr; from_u64_and_size, byte, word, dword and qword
\* are the calls with an unsigned repr
NumberConstruct(value, repr) ==
    /\ pc = "number"
    /\ \E n \in {from_u64_and_repr(value, repr)} :
           last' = NumLast("from_u64_and_repr", n, repr, "ok", n)
    /\ UNCHANGED <<current_arch, stmts, pc>>

NumberCastAs(repr) ==
    /\ pc = "number"
    /\ \E r \in {cast_as(last.n, repr)} :
           last' = NumLast("cast_as", last.n, repr, r.st,
                           IF r.st = "ok" THEN r.n ELSE last.n)
    /\ UNCHANGED <<current_arch, stmts, pc>>

NumberConvert(repr) ==
    /\ pc = "number"
    /\ \E r \in {convert(last.n, repr)} :
           last' = NumLast("convert", last.n, repr, r.st,
                           IF r.st = "some" THEN r.n ELSE last.n)
    /\ UNCHANGED <<current_arch, stmts, pc>>

NumberMakeSigned(signed) ==
    /\ pc = "number"
    /\ \E r \in {make_signed(last.n, signed)} :
           last' = NumLast("make_signed", last.n, signed, r.st,
                           IF r.st = "ok" THEN r.n ELSE last.n)
    /\ UNCHANGED <<current_arch, stmts, pc>>

NumberResize(size) ==
    /\ pc = "number"
    /\ last' = NumLast("resize", last.n, size, "ok", resize(last.n, size))
    /\ UNCHANGED <<current_arch, stmts, pc>>

NextNumber ==
    \/ \E value \in NumberValues, repr \in NumberReprs : NumberConstruct(value, repr)
    \/ \E repr \in NumberReprs : NumberCastAs(repr)
    \/ \E repr \in NumberReprs : NumberConvert(repr)
    \/ \E signed \in BOOLEAN : NumberMakeSigned(signed)
    \/ \E size \in NumberSizes : NumberResize(size)

SpecNumber == InitNumber /\ [][NextNumber]_vars

(***************************************************************************)
(* What the properties read: the mode of the current architecture, the     *)
(* statements the last operation pushed, the registers of an operand, and  *)
(* the entry of the opcode table compile_instruction selects (lines        *)
(* 86-116: sanitize, address size, match_op_format).                       *)
(***************************************************************************)
Mode == ModeOf(current_arch)
Compiled == last.op = "compile"
Emitted == SubSeq(stmts, Len(last.pre) + 1, Len(stmts))

IsByte(stmt) == stmt.type = "Const" /\ stmt.value.num /\ ValueSize(stmt.value) = BYTE
HasByte(stmt, role, b) == stmt.role = role /\ IsByte(stmt) /\ stmt.value.n.value[1] = b

\* 1 for a static register with a code of 8 or more
ExtBit(k) == IF ~is_dynamic(k) /\ encode(k) >= 8 THEN 1 ELSE 0
ExtIndex(arg) ==
    arg.t = "Indirect" /\ IsSome(arg.index) /\ ExtBit(arg.index[1].reg.kind) = 1
ExtBase(arg) ==
    arg.t = "Indirect" /\ IsSome(arg.base) /\ ExtBit(arg.base[1].kind) = 1
UsesExtended(arg) ==
    (arg.t = "Direct" /\ ExtBit(arg.reg.kind) = 1) \/ ExtBase(arg) \/ ExtIndex(arg)

entry_of(mode, instruction, san) ==
    IF san.err \/ IsNone(pref_addr_of(mode, effective_addr_size(mode, san.addr_size)))
    THEN None
    ELSE match_op_format(mode, instruction.op, san.args).data
matched_entry(mode, instruction) ==
    entry_of(mode, instruction, sanitize_indirects_and_sizes(mode, instruction.args))

(***************************************************************************)
(* C1                                                                      *)
(***************************************************************************)
\* the REX byte 0x40 | W<<3 | R<<2 | X<<1 | B of the operands of the plan p
RexOf(p) ==
    64 + 8 * BoolU8(p.rex_w) + 4 * ExtBit(reg_kind_of(p.reg))
       + 2 * ExtBit(index_kind_of(p.rm)) + ExtBit(base_kind_of(p.rm))
PlacesExtended(p) ==
    ExtBit(reg_kind_of(p.reg)) + ExtBit(index_kind_of(p.rm)) + ExtBit(base_kind_of(p.rm)) > 0
IsLegacyPlan(p) == p.res = "run" /\ ~Intersects(p.data.flags, {"VEX_OP", "XOP_OP"})
RexBeforeOpcode(p, em) ==
    \E k \in 1..(Len(em) - 1) : HasByte(em[k], "rex", RexOf(p)) /\ em[k + 1].role = "opcode"

\* C1: in Long mode, a call that succeeds for a legacy-encoded (non-VEX/XOP)
\* instruction which places a register of code 8 or more in ModRM.reg, in
\* SIB.index or in the rm-or-base field has pushed, right before the opcode,
\* the REX byte 0x40 | W<<3 | R<<2 | X<<1 | B in which R, X and B are set
\* exactly for the fields that hold such a register.
C1_RexForExtendedRegisters ==
    (Compiled /\ Mode = "Long" /\ last.res = "Ok") =>
        \A p \in {plan_instruction("Long", current_arch.features, last.instr)} :
            (IsLegacyPlan(p) /\ PlacesExtended(p)) => RexBeforeOpcode(p, Emitted)

\* mov r8d, [rbx + r9*2] in Long mode: REX with R and X, 0x46
C1_Witness ==
    /\ Compiled /\ Mode = "Long" /\ last.res = "Ok"
    /\ last.instr.op = "mov"
    /\ \E i \in 1..Len(last.instr.args) : ExtIndex(last.instr.args[i])
    /\ \E k \in 1..Len(Emitted) : HasByte(Emitted[k], "rex", 70)

(***************************************************************************)
(* C2                                                                      *)
(***************************************************************************)
\* C2: in Protected mode no call for an instruction that uses a register of
\* code 8 or more as a direct operand, as a base or as an index returns Ok
\* (the claim: each fails with UnsupportedInThisMode).  check_rex returns
\* Ok(false) in Protected mode without looking at the operands, so this does
\* not hold: mov eax, r8d returns Ok.
C2_ExtendedRegisterFailsInProtected ==
    (Compiled /\ Mode = "Protected"
       /\ \E i \in 1..Len(last.instr.args) : UsesExtended(last.instr.args[i]))
    => last.res # "Ok"

(***************************************************************************)
(* C3                                                                      *)
(***************************************************************************)
\* a memory operand with the base RSP or R12, 32 or 64 bits wide, and no index
EscapedBase(arg) ==
    /\ arg.t = "Indirect" /\ IsNone(arg.index) /\ IsSome(arg.base)
    /\ arg.base[1].size \in {DWORD, QWORD}
    /\ (RegIs(arg.base[1], RSP) \/ RegIs(arg.base[1], R12))
ModrmThenSib(em, k, base) ==
    /\ IsByte(em[k]) /\ em[k].value.n.value[1] % 8 = 4
    /\ k < Len(em) /\ em[k + 1].role = "sib" /\ IsByte(em[k + 1])
    /\ (em[k + 1].value.n.value[1] \div 8) % 8 = 4
    /\ em[k + 1].value.n.value[1] % 8 = encode(base.kind) % 8

\* C3: for a memory operand in normal addressing whose base is RSP or R12 and
\* which has no index, every ModRM byte a call pushes has rm = 100 and is
\* followed by a SIB byte with index = 100 and base = the low three bits of
\* the base register; a call that returns Ok has pushed that ModRM byte.
C3_SibEscapeForRspR12 ==
    Compiled =>
        \A i \in 1..Len(last.instr.args) :
            EscapedBase(last.instr.args[i]) =>
                /\ last.res = "Ok" => \E k \in 1..Len(Emitted) : Emitted[k].role = "modrm"
                /\ \A k \in 1..Len(Emitted) :
                       Emitted[k].role = "modrm" =>
                           ModrmThenSib(Emitted, k, last.instr.args[i].base[1])

\* mov eax, [r12] in Long mode: ModRM 0x04, SIB 0x24
C3_Witness ==
    /\ Compiled /\ Mode = "Long" /\ last.res = "Ok"
    /\ \E i \in 1..Len(last.instr.args) :
           EscapedBase(last.instr.args[i]) /\ RegIs(last.instr.args[i].base[1], R12)
    /\ \E k \in 1..(Len(Emitted) - 1) :
           HasByte(Emitted[k], "modrm", 4) /\ HasByte(Emitted[k + 1], "sib", 36)

(***************************************************************************)
(* C4                                                                      *)
(***************************************************************************)
\* mov eax, [rbx + rcx*4 + 0x10], the displacement the literal byte 0x10
MovEaxRbxRcx4Disp ==
    Instr(<<>>, "mov",
          <<Reg(DWORD, RAX),
            Mem(Some(new_static(QWORD, RBX)), Some(Index(new_static(QWORD, RCX), 4, None)),
                Some(ValueByte(16)))>>)

\* C4: mov eax, [rbx + rcx*4 + 0x10] in Long mode returns Ok and has pushed
\* the ModRM byte 0x44, the SIB byte 0x8B and then the one displacement byte
\* 0x10.  The call panics instead, after the SIB byte: Number::convert
\* refuses 0x10 as an I8 (line 444, expect("FIXME")).
C4_MovSibDisp8 ==
    (Compiled /\ Mode = "Long" /\ last.instr = MovEaxRbxRcx4Disp) =>
        /\ last.res = "Ok"
        /\ \E k \in 1..(Len(Emitted) - 2) :
               /\ HasByte(Emitted[k], "modrm", 68)
               /\ HasByte(Emitted[k + 1], "sib", 139)
               /\ HasByte(Emitted[k + 2], "disp", 16)

(***************************************************************************)
(* C5                                                                      *)
(***************************************************************************)
MovRaxRbx == Instr(<<>>, "mov", <<Reg(QWORD, RAX), Reg(QWORD, RBX)>>)

\* C5: mov rax, rbx in Long mode returns Ok and pushes exactly the bytes
\* 0x48 (REX.W), 0x89 (the opcode) and 0xD8 (the ModRM byte).
C5_MovRaxRbx ==
    (Compiled /\ Mode = "Long" /\ last.instr = MovRaxRbx) =>
        /\ last.res = "Ok"
        /\ Emitted = <<StmtU8(72, "rex"), StmtExtend(<<137>>, "opcode"),
                       StmtU8(216, "modrm")>>

C5_Witness ==
    /\ Compiled /\ Mode = "Long" /\ last.instr = MovRaxRbx
    /\ last.res = "Ok" /\ Len(Emitted) = 3

(***************************************************************************)
(* C6                                                                      *)
(***************************************************************************)
\* the instruction with the index of each memory operand taken from the
\* lower eight registers (code - 8)
LowIndex(arg) ==
    IF ExtIndex(arg)
    THEN [arg EXCEPT !.index = Some([@[1] EXCEPT !.reg.kind.code = @ - 8])]
    ELSE arg
WithLowIndex(instruction) ==
    [instruction EXCEPT !.args = [i \in 1..Len(@) |-> LowIndex(@[i])]]
HasExtIndex(instruction) ==
    \E i \in 1..Len(instruction.args) : ExtIndex(instruction.args[i])

\* the VEX prefix with R, X and B in the state of no extension: 0xC4 and
\* map_sel | 0xE0, or the two-byte form 0xC5 with the inverted R bit set
VexWithoutExtension(em, map_sel) ==
    \E k \in 1..(Len(em) - 1) :
        \/ /\ HasByte(em[k], "vex", 196)
           /\ HasByte(em[k + 1], "vex1", 224 + (map_sel % 32))
        \/ /\ HasByte(em[k], "vex", 197)
           /\ em[k + 1].role = "vex2" /\ IsByte(em[k + 1])
           /\ em[k + 1].value.n.value[1] >= 128

\* C6: in Protected mode, a VEX-encoded instruction whose memory operand has
\* an index register of code 8 or more is compiled as well as the same
\* instruction with the index taken from the lower eight registers: whenever
\* that one returns Ok this one returns Ok, and the VEX prefix it pushes has
\* R, X and B in the state of no extension (the first payload byte is
\* map_sel | 0xE0 in the three-byte form).
C6_VexExtendedIndexInProtected ==
    (Compiled /\ Mode = "Protected" /\ HasExtIndex(last.instr)) =>
        \A d \in {matched_entry("Protected", last.instr)} :
            (IsSome(d) /\ "VEX_OP" \in d[1].flags) =>
                \A r \in {compile_instruction("Protected", current_arch.features, last.pre,
                                              WithLowIndex(last.instr))} :
                    r.res = "Ok" =>
                        /\ last.res = "Ok"
                        /\ VexWithoutExtension(Emitted, d[1].ops[1])

\* vgatherdps xmm0, [ebx + xmm9*1], xmm1 in Protected mode: 0xC4, 0xE2
C6_Witness ==
    /\ Compiled /\ Mode = "Protected" /\ last.res = "Ok"
    /\ last.instr.op = "vgatherdps" /\ HasExtIndex(last.instr)
    /\ \E k \in 1..(Len(Emitted) - 1) :
           HasByte(Emitted[k], "vex", 196) /\ HasByte(Emitted[k + 1], "vex1", 226)

(***************************************************************************)
(* C7                                                                      *)
(***************************************************************************)
\* C7: with R the features of the matched entry and F the active features,
\* a call with R not within F fails with DisabledFeatures carrying exactly
\* R \ F and pushes no statement; a call with R within F, or one that matches
\* no entry, never fails with DisabledFeatures.
C7_FeatureGate ==
    Compiled =>
        \A d \in {matched_entry(Mode, last.instr)} :
            IF IsSome(d) /\ ~(d[1].features \subseteq current_arch.features)
            THEN /\ last.res = "Err"
                 /\ last.err = DisabledFeatures(d[1].features \ current_arch.features)
                 /\ stmts = last.pre
            ELSE last.err.kind # "DisabledFeatures"

\* vaesenc (AVX and AESNI) with only AVX active: DisabledFeatures(AESNI)
C7_Witness ==
    /\ Compiled /\ last.res = "Err" /\ last.err.kind = "DisabledFeatures"
    /\ current_arch.features = {"AVX"}
    /\ last.err.features = {"AESNI"}

(***************************************************************************)
(* C8                                                                      *)
(***************************************************************************)
\* the union of the features the recognised names of a list stand for
RecognisedFeatures(list) ==
    UNION {FeaturesFromStr(list[i])[1] :
             i \in {j \in 1..Len(list) : IsSome(FeaturesFromStr(list[j]))}}

\* C8: after every call of set_features the active set is the union of the
\* features of the recognised names of the list of that call, whatever the
\* calls before it left: nothing accumulates, unknown names are skipped, and
\* the empty list leaves no feature active.
C8_SetFeaturesReplaces ==
    last.op = "feature" => current_arch.features = RecognisedFeatures(last.list)

\* set_features(["sse9", "avx"]) on an architecture that had more active
C8_Witness ==
    /\ last.op = "feature"
    /\ last.list = <<"sse9", "avx">>
    /\ current_arch.features = {"AVX"}

(***************************************************************************)
(* C9                                                                      *)
(***************************************************************************)
\* C9: a call of compile_instruction that returns an error has pushed no
\* relocation (jump target) statement.
C9_NoRelocationOnError ==
    (Compiled /\ last.res = "Err") =>
        \A k \in 1..Len(Emitted) : Emitted[k].type \notin JumpTargetTypes

\* a call that fails after it has pushed statements and recorded a relocation
C9_Witness ==
    /\ Compiled /\ last.res = "Err"
    /\ last.relocs # <<>>
    /\ Emitted # <<>>

(***************************************************************************)
(* C10                                                                     *)
(***************************************************************************)
\* C10: every call of compile_instruction, whatever it returns, leaves the
\* statements the buffer held before it as an unchanged prefix of the buffer.
C10_AppendOnly ==
    Compiled =>
        /\ Len(stmts) >= Len(last.pre)
        /\ SubSeq(stmts, 1, Len(last.pre)) = last.pre

\* a call that pushes statements after those of an earlier call
C10_Witness ==
    /\ Compiled
    /\ last.pre # <<>>
    /\ \E k \in 1..Len(last.pre) : last.pre[k].role # "directive"
    /\ Len(stmts) > Len(last.pre)

(***************************************************************************)
(* C11: relocation offsets                                                 *)
(***************************************************************************)
\* the bytes a statement of compile_instruction stands for
StmtBytes(stmt) ==
    CASE stmt.type = "Const" -> in_bytes(ValueSize(stmt.value))
      [] stmt.type = "Extend" -> Len(stmt.bytes)
      [] OTHER -> 0

RECURSIVE BytesBetween(_, _, _)
BytesBetween(em, from, to) ==
    IF from > to THEN 0 ELSE StmtBytes(em[from]) + BytesBetween(em, from + 1, to)

\* the positions of the statements of one role, in the order of emission
RECURSIVE RolePositions(_, _, _)
RolePositions(em, role, i) ==
    IF i > Len(em) THEN <<>>
    ELSE (IF em[i].role = role THEN <<i>> ELSE <<>>) \o RolePositions(em, role, i + 1)

OffsetsCountBytesAfterSlot(em) ==
    \A slots \in {RolePositions(em, "slot", 1)}, recs \in {RolePositions(em, "reloc", 1)} :
        /\ Len(slots) = Len(recs)
        /\ \A k \in 1..Len(recs) :
               /\ recs[k] = Len(em) - Len(recs) + k
               /\ em[recs[k]].data[1]
                     = BytesBetween(em, slots[k] + 1, Len(em) - Len(recs))

\* C11: after a successful compile_instruction every relocation record is
\* at the end of the instruction, one per zero-filled slot in the order of the
\* slots, and its offset is the number of bytes of the statements between its
\* slot and the first relocation record; the last slot emitted has offset 0
\* when nothing follows it.
C11_RelocationOffsets ==
    (Compiled /\ last.res = "Ok") => OffsetsCountBytesAfterSlot(Emitted)

\* mov dword [->l], imm32 has returned Ok: four bytes follow the slot
C11_Witness ==
    /\ Compiled /\ last.res = "Ok"
    /\ \E i \in 1..Len(Emitted) :
          /\ Emitted[i].role = "reloc"
          /\ Emitted[i].data[1] = 4
    /\ \E i \in 1..Len(Emitted) : Emitted[i].role = "immediate"

(***************************************************************************)
(* C12: the payload of a relocation record                                 *)
(***************************************************************************)
\* the payload the record of the relocation r has in this mode
PayloadOf(mode, r) ==
    <<r.offset, in_bytes(r.size)>>
    \o (IF mode = "Protected"
        THEN <<CASE r.kind = "Relative" -> 0 [] r.kind = "Absolute" -> 1 [] r.kind = "Extern" -> 2>>
        ELSE <<>>)

\* the records at the end of em are those of relocs, in order
RecordsCarry(em, mode, relocs) ==
    \A recs \in {RolePositions(em, "reloc", 1)} :
        /\ Len(recs) = Len(relocs)
        /\ \A k \in 1..Len(recs) :
               /\ em[recs[k]].type \in JumpTargetTypes
               /\ em[recs[k]].data = PayloadOf(mode, relocs[k])
               /\ Len(em[recs[k]].data) = IF mode = "Protected" THEN 3 ELSE 2

\* what a data directive pushes for its constants, in order: for a
\* relocation a zero-filled slot of the size, then a record with offset 0
RECURSIVE StaticRelocShape(_, _, _, _)
StaticRelocShape(em, mode, consts, size) ==
    IF consts = <<>> THEN em = <<>>
    ELSE IF consts[1].t = "Relocate"
    THEN /\ Len(em) >= 2
         /\ em[1] = StmtZeroed(size, "slot")
         /\ em[2].type \in JumpTargetTypes
         /\ em[2].jump = consts[1].jump
         /\ em[2].data = <<0, in_bytes(size)>> \o (IF mode = "Protected" THEN <<0>> ELSE <<>>)
         /\ StaticRelocShape(SubSeq(em, 3, Len(em)), mode, Tail(consts), size)
    ELSE /\ Len(em) >= 1
         /\ em[1].role = "directive"
         /\ StaticRelocShape(Tail(em), mode, Tail(consts), size)

\* C12: every relocation record compile_instruction pushes carries (offset,
\* size in bytes) in 64-bit mode and (offset, size in bytes, kind id) in 32-bit
\* mode, with kind id 0 for Relative, 1 for Absolute and 2 for Extern; a data
\* directive pushes for a relocation a zero-filled slot of the given size and
\* one record with offset 0 of the same shape, kind 0 on x86.
C12_RelocationPayload ==
    /\ Compiled => RecordsCarry(Emitted, Mode, IF last.res = "Ok" THEN last.relocs ELSE <<>>)
    /\ last.op = "data" => StaticRelocShape(Emitted, Mode, last.list[2], last.list[1])

\* a 32-bit compile has pushed a record of kind Extern
C12_Witness ==
    /\ Compiled /\ last.res = "Ok" /\ Mode = "Protected"
    /\ \E i \in 1..Len(Emitted) :
          /\ Emitted[i].role = "reloc"
          /\ Len(Emitted[i].data) = 3
          /\ Emitted[i].data[3] = 2

(***************************************************************************)
(* C13: a Bare jump target                                                 *)
(***************************************************************************)
HasBareTarget(instruction) ==
    \E i \in 1..Len(instruction.args) :
        /\ instruction.args[i].t = "JumpTarget"
        /\ instruction.args[i].jump.kind = "Bare"

NoRecord(em) == \A i \in 1..Len(em) : em[i].role # "reloc"

ExternRecord(em) ==
    \E i \in 1..Len(em) :
        /\ em[i].type = "BareJumpTarget"
        /\ Len(em[i].data) = 3
        /\ em[i].data[3] = 2

\* C13: compile_instruction of an instruction with a Bare jump target as
\* operand returns an error in 64-bit mode and pushes no relocation record; in
\* 32-bit mode it returns Ok and pushes a record of kind Extern (kind id 2).
C13_BareJumpTarget ==
    (Compiled /\ HasBareTarget(last.instr)) =>
        IF Mode = "Long"
        THEN /\ last.res = "Err"
             /\ last.err.kind = "Generic"
             /\ NoRecord(Emitted)
        ELSE /\ last.res = "Ok"
             /\ ExternRecord(Emitted)

\* jmp to a Bare target has failed in 64-bit mode after the placeholder
C13_Witness ==
    /\ Compiled /\ HasBareTarget(last.instr) /\ Mode = "Long"
    /\ last.res = "Err"
    /\ \E i \in 1..Len(Emitted) : Emitted[i].role = "slot"

(***************************************************************************)
(* C14: diagnostics                                                        *)
(***************************************************************************)
\* C14: a compile_instruction call that emitted a diagnostic through
\* emit_error_at does not return Ok.
C14_DiagnosticMeansError ==
    (Compiled /\ last.diag > 0) => last.res # "Ok"

(***************************************************************************)
(* C15: an unknown mnemonic                                                *)
(***************************************************************************)
\* compile_instruction gets as far as match_op_format (lines 95-116)
ReachesMatcher(mode, instruction) ==
    \A san \in {sanitize_indirects_and_sizes(mode, instruction.args)} :
        /\ ~san.err
        /\ IsSome(pref_addr_of(mode, effective_addr_size(mode, san.addr_size)))

UnknownMnemonic ==
    /\ Compiled
    /\ last.instr.op \notin DOMAIN OpTable
    /\ ReachesMatcher(Mode, last.instr)

\* C15 as stated: matching a mnemonic without an entry in the opcode table
\* fails with an UnknownInstruction error.
C15_UnknownInstructionError ==
    UnknownMnemonic => (last.res = "Err" /\ last.err.kind = "UnknownInstruction")

\* C15: matching a mnemonic without an entry in the opcode table emits one
\* diagnostic and fails with Error::Fatal; nothing is pushed.
C15_UnknownMnemonicIsFatal ==
    UnknownMnemonic =>
        /\ last.res = "Err"
        /\ last.err = Fatal
        /\ last.diag >= 1
        /\ Emitted = <<>>

\* frobnicate eax, [..] has failed in the matcher
C15_Witness ==
    /\ UnknownMnemonic
    /\ last.instr.op = "frobnicate"
    /\ last.instr.args # <<>>
    /\ last.err = Fatal

(***************************************************************************)
(* C16: the bridge of State refuses every combination                      *)
(***************************************************************************)
\* the expressions compile_instruction has to combine into a byte: those of
\* the dynamic registers and of a dynamic scale
ArgDynExprs(arg) ==
    CASE arg.t = "Direct" ->
           IF is_dynamic(arg.reg.kind) THEN {KindExpr(arg.reg.kind)} ELSE {}
      [] arg.t = "Indirect" ->
           (IF IsSome(arg.base) /\ is_dynamic(arg.base[1].kind)
            THEN {KindExpr(arg.base[1].kind)} ELSE {})
           \cup (IF IsSome(arg.index) /\ is_dynamic(arg.index[1].reg.kind)
                 THEN {KindExpr(arg.index[1].reg.kind)} ELSE {})
           \cup (IF IsSome(arg.index) /\ IsSome(arg.index[1].expr)
                 THEN {arg.index[1].expr[1]} ELSE {})
      [] OTHER -> {}
DynExprs(instruction) ==
    UNION {ArgDynExprs(instruction.args[i]) : i \in 1..Len(instruction.args)}

\* the same operand with register 1 of the family for every dynamic
\* register and without the dynamic scale
StaticKind(k) == IF is_dynamic(k) THEN Static(RegId(k.family, 1)) ELSE k
StaticArg(arg) ==
    CASE arg.t = "Direct" -> [arg EXCEPT !.reg.kind = StaticKind(@)]
      [] arg.t = "Indirect" ->
           [arg EXCEPT
              !.base = IF IsSome(@) THEN Some([@[1] EXCEPT !.kind = StaticKind(@)]) ELSE @,
              !.index = IF IsSome(@)
                        THEN Some([@[1] EXCEPT !.reg.kind = StaticKind(@), !.expr = None])
                        ELSE @]
      [] OTHER -> arg
StaticTwin(instruction) ==
    [instruction EXCEPT !.args = [i \in 1..Len(@) |-> StaticArg(@[i])]]

\* rsp as index with a dynamic scale: the operand is refused by the sanitation
\* (compiler.rs 795-800) while its twin without the scale is swapped into
\* the base, so such an instruction has no static twin
RspIndexDynamicScale(instruction) ==
    \E i \in 1..Len(instruction.args) :
        /\ instruction.args[i].t = "Indirect"
        /\ IsSome(instruction.args[i].index)
        /\ instruction.args[i].index[1].reg.kind = Static(RSP)
        /\ IsSome(instruction.args[i].index[1].expr)

\* C16: with the bridge of State, which refuses every combination, a call
\* that has to combine an expression into a byte (a dynamic register in a
\* ModRM, SIB, REX, VEX, short-opcode or register-in-immediate field, or a
\* dynamic scale) returns a BadExprCombinator error that carries one of these
\* expressions, whenever the same instruction with static registers in their
\* place is compiled without an error; and every BadExprCombinator error
\* carries an expression of the instruction.
C16_RefusedCombinator ==
    Compiled =>
        /\ (last.res = "Err" /\ last.err.kind = "BadExprCombinator")
              => last.err.expr \in DynExprs(last.instr)
        /\ (DynExprs(last.instr) # {} /\ ~RspIndexDynamicScale(last.instr)) =>
              \A r \in {compile_instruction(Mode, current_arch.features, last.pre,
                                            StaticTwin(last.instr))} :
                  r.res = "Ok" =>
                      /\ last.res = "Err"
                      /\ last.err.kind = "BadExprCombinator"

\* mov eax, [ebx + r*4] with a dynamic index in Protected mode: the ModRM byte
\* is pushed, the SIB byte is refused
C16_Witness ==
    /\ Compiled /\ Mode = "Protected"
    /\ last.res = "Err"
    /\ last.err = BadExprCombinator(MkExpr(8, U8))
    /\ \E i \in 1..Len(Emitted) : Emitted[i].role = "modrm"

(***************************************************************************)
(* C17, C18: Number                                                        *)
(***************************************************************************)
\* the integer a Number of one or two bytes stands for: its low bytes, read
\* in two's complement when the repr is signed
MathValue(n) ==
    LET w == in_bytes(n.repr.size)
        low == IF w = 1 THEN n.value[1] ELSE n.value[1] + 256 * n.value[2]
        half == IF w = 1 THEN 128 ELSE 32768
    IN  IF n.repr.signed /\ low >= half THEN low - 2 * half ELSE low

\* v is in the range of a repr of one or two bytes
InRange(v, repr) ==
    LET half == IF in_bytes(repr.size) = 1 THEN 128 ELSE 32768
    IN  IF repr.signed THEN -half <= v /\ v < half ELSE 0 <= v /\ v < 2 * half

Converted == pc = "number" /\ last.op = "convert"

\* C17 as stated: Number::convert never panics, and between reprs of one
\* and two bytes it returns Some(m) with m.repr = r and the value of n exactly
\* when the value of n is in the range of r, and None otherwise.
C17_ConvertPreservesValue ==
    Converted =>
        /\ last.res # "panic"
        /\ (in_bytes(last.src.repr.size) <= 2 /\ in_bytes(last.arg.size) <= 2) =>
              /\ (last.res = "some") = InRange(MathValue(last.src), last.arg)
              /\ (last.res = "none") = ~InRange(MathValue(last.src), last.arg)
              /\ last.res = "some" =>
                    /\ last.n.repr = last.arg
                    /\ MathValue(last.n) = MathValue(last.src)

\* the stored pattern is extended for the repr: the bytes above its width
\* are 0xFF for a signed Number with the sign bit set, else 0
CorrectlyExtended(n) ==
    \A w \in {in_bytes(n.repr.size)} :
        \A i \in (w + 1)..8 :
            n.value[i] = IF n.repr.signed /\ n.value[w] >= 128 THEN 255 ELSE 0

\* C18 as stated: every Number made by from_u64_and_repr (from_u64_and_size,
\* byte, word, dword, qword) and by cast_as, convert, make_signed and resize
\* from such a Number has its 64-bit pattern extended for its repr.
C18_CorrectlyExtended ==
    pc = "number" => CorrectlyExtended(last.n)

(***************************************************************************)
(* C19, C20: 16-bit addressing                                             *)
(***************************************************************************)
\* a memory operand whose registers are all 16-bit legacy registers
Is16(arg) ==
    /\ arg.t = "Indirect"
    /\ IsSome(arg.base) \/ IsSome(arg.index)
    /\ IsSome(arg.base) => (arg.base[1].kind.family = "LEGACY" /\ arg.base[1].size = WORD)
    /\ IsSome(arg.index) =>
          (arg.index[1].reg.kind.family = "LEGACY" /\ arg.index[1].reg.size = WORD)

\* the rm code of the x86 16-bit addressing forms for the registers of the
\* operand, None if there is no such form
Rm16(arg) ==
    LET regs == (IF IsSome(arg.base) THEN <<arg.base[1].kind>> ELSE <<>>)
                \o (IF IsSome(arg.index) THEN <<arg.index[1].reg.kind>> ELSE <<>>)
        plain == /\ \A j \in 1..Len(regs) : ~is_dynamic(regs[j])
                 /\ IsSome(arg.index) =>
                       (arg.index[1].scale = 1 /\ IsNone(arg.index[1].expr))
        ids == {RegId(regs[j].family, regs[j].code) : j \in 1..Len(regs)}
    IN  IF ~plain THEN None
        ELSE IF Len(regs) = 2
        THEN CASE ids = {RBX, RSI} -> Some(0)
               [] ids = {RBX, RDI} -> Some(1)
               [] ids = {RBP, RSI} -> Some(2)
               [] ids = {RBP, RDI} -> Some(3)
               [] OTHER -> None
        ELSE CASE ids = {RSI} -> Some(4)
               [] ids = {RDI} -> Some(5)
               [] ids = {RBP} -> Some(6)
               [] ids = {RBX} -> Some(7)
               [] OTHER -> None

\* sanitize_indirect succeeds on the operand exactly when it has a 16-bit
\* form, and then leaves the synthetic register of that form as the base
Sanitized16(mode, arg) ==
    \A r \in {sanitize_indirect(mode, arg.nosplit, arg.base, arg.index)} :
        /\ (~r.err) = IsSome(Rm16(arg))
        /\ ~r.err =>
              /\ r.index = None
              /\ r.base = Some(new_static(WORD, RegId("LEGACY", Rm16(arg)[1])))
              /\ r.size = Some(WORD)

\* C19 as stated: for a memory operand of 16-bit legacy registers the
\* Sanitizer succeeds exactly for the pairs BX+SI, BX+DI, BP+SI, BP+DI (either
\* slot order, scale 1, no dynamic scale) and the single registers SI, DI, BP,
\* BX; on success the index is emptied and the base is the synthetic register
\* with the rm code 0..7 of the form; every other combination fails with Fatal.
C19_Sanitize16 ==
    Compiled =>
        \A i \in 1..Len(last.instr.args) :
            Is16(last.instr.args[i]) => Sanitized16(Mode, last.instr.args[i])

\* the same in 64-bit mode, where sanitize_indirect reaches lines 737-775
C19_Sanitize16InLongMode ==
    (Compiled /\ Mode = "Long") =>
        \A i \in 1..Len(last.instr.args) :
            Is16(last.instr.args[i]) => Sanitized16("Long", last.instr.args[i])

\* [bp] alone without a displacement
Bp16NoDisp(arg) == Is16(arg) /\ Rm16(arg) = Some(6) /\ IsNone(arg.disp)

\* C20 as stated: a compile with the 16-bit operand [bp] and no displacement
\* pushes a ModRM byte with mod = 01 and rm = 110 followed by one zero
\* displacement byte.
C20_Bp16GetsDisp8 ==
    (Compiled /\ \E i \in 1..Len(last.instr.args) : Bp16NoDisp(last.instr.args[i])) =>
        /\ last.res = "Ok"
        /\ \E k \in 1..(Len(Emitted) - 1) :
              /\ Emitted[k].role = "modrm" /\ IsByte(Emitted[k])
              /\ Emitted[k].value.n.value[1] \div 64 = MOD_DISP8
              /\ Emitted[k].value.n.value[1] % 8 = 6
              /\ Emitted[k + 1] = StmtU8(0, "disp")

(***************************************************************************)
(* C21: mode bits and displacement of normal addressing                    *)
(***************************************************************************)
\* a sanitized memory operand that takes the normal 32/64-bit branch
NormalOperand(a, addr_size) ==
    /\ a.t = "Indirect"
    /\ addr_size # WORD
    /\ ~(IsSome(a.index) /\ a.index[1].reg.kind.family = "XMM")
    /\ ~(IsSome(a.base) /\ a.base[1].kind.family = "RIP")

RbpClassBase(a) ==
    IsSome(a.base) /\ (is_dynamic(a.base[1].kind)
                       \/ (a.base[1].kind.family = "LEGACY" /\ a.base[1].kind.code \in {5, 13}))

\* the mod bits of the rule
RuleMod(a) ==
    IF IsNone(a.base) THEN 0
    ELSE IF IsNone(a.disp) THEN (IF RbpClassBase(a) THEN 1 ELSE 0)
    ELSE IF a.disp_size = Some(BYTE) THEN 1 ELSE 2

\* the number of displacement bytes of the rule
RuleDispBytes(a) ==
    IF IsNone(a.base) THEN 4
    ELSE IF IsNone(a.disp) THEN (IF RbpClassBase(a) THEN 1 ELSE 0)
    ELSE IF a.disp_size = Some(BYTE) THEN 1 ELSE 4

\* a SIB byte follows the ModRM byte of the operand
SibFollows(mode, a) ==
    IsSome(a.index) \/ (mode = "Long" /\ IsNone(a.base) /\ IsNone(a.index))

\* the ModRM byte at k and what follows it obey the rule for the operand a
ModAndDispByRule(em, mode, a, k) ==
    \A d \in {k + 1 + (IF SibFollows(mode, a) THEN 1 ELSE 0)} :
        /\ IsByte(em[k])
        /\ em[k].value.n.value[1] \div 64 = RuleMod(a)
        /\ IF RuleDispBytes(a) = 0
           THEN \A j \in 1..Len(em) : em[j].role # "disp"
           ELSE /\ d <= Len(em)
                /\ em[d].role = "disp" /\ em[d].type = "Const"
                /\ ValueSize(em[d].value) = RuleDispBytes(a)
                /\ IsNone(a.disp) => em[d].value = ValueNumber(
                       from_u64_and_size(U64(0), RuleDispBytes(a)))

\* the statement for the operands whose displacement satisfies keep
NormalAddressing(keep(_)) ==
    Compiled =>
        \A san \in {sanitize_indirects_and_sizes(Mode, last.instr.args)} :
            ~san.err =>
                \A i \in 1..Len(san.args), k \in 1..Len(Emitted) :
                    ( /\ NormalOperand(san.args[i], effective_addr_size(Mode, san.addr_size))
                      /\ keep(san.args[i].disp)
                      /\ Emitted[k].role = "modrm"
                      /\ SibFollows(Mode, san.args[i]) =>
                            (k < Len(Emitted) /\ Emitted[k + 1].role = "sib") )
                    => ModAndDispByRule(Emitted, Mode, san.args[i], k)

AnyDisp(d) == TRUE
NoLiteralDisp(d) == IsNone(d) \/ ~d[1].num

\* C21 as stated: in normal 32/64-bit addressing a base other than
\* RBP/R13/dynamic without displacement gives mod = 00 and no displacement
\* bytes; an RBP, R13 or dynamic base without displacement gives mod = 01 and
\* one zero byte; a base with a BYTE-sized displacement gives mod = 01 and one
\* byte; a base with any other displacement gives mod = 10 and four bytes; no
\* base gives mod = 00 and a four-byte displacement, zero if none was given.
C21_NormalAddressing == NormalAddressing(AnyDisp)

\* the same for the operands without displacement or with an expression as
\* displacement
C21_NormalAddressingNoLiteral == NormalAddressing(NoLiteralDisp)

(***************************************************************************)
(* C22: rsp in the index slot                                              *)
(***************************************************************************)
\* a memory operand as the user wrote it whose registers are legacy registers
\* of one size, 32 or 64 bits
NormalWritten(arg) ==
    /\ arg.t = "Indirect"
    /\ IsSome(arg.base) \/ IsSome(arg.index)
    /\ \A r \in (IF IsSome(arg.base) THEN {arg.base[1]} ELSE {})
                \cup (IF IsSome(arg.index) THEN {arg.index[1].reg} ELSE {}) :
           r.kind.family = "LEGACY" /\ r.size \in {DWORD, QWORD}
    /\ (IsSome(arg.base) /\ IsSome(arg.index)) => arg.base[1].size = arg.index[1].reg.size

WrittenSize(arg) == IF IsSome(arg.base) THEN arg.base[1].size ELSE arg.index[1].reg.size
RspIndex(arg) == IsSome(arg.index) /\ RegIs(arg.index[1].reg, RSP)
\* the index that stands for "no index" in the SIB byte
NoIndexEscape(size) == Some(Index(new_static(size, RSP), 1, None))

RspNeverIndex(arg, r) ==
    /\ \* rsp in the index slot after a success is the escape, next to a base
       \* that needs the SIB byte
       (~r.err /\ IsSome(r.index) /\ RegIs(r.index[1].reg, RSP)) =>
           /\ r.index = NoIndexEscape(WrittenSize(arg))
           /\ \/ OptRegIs(r.base, RSP) \/ OptRegIs(r.base, R12)
              \/ (IsSome(r.base) /\ is_dynamic(r.base[1].kind))
           /\ IsNone(arg.index) \/ (RspIndex(arg) /\ IsNone(arg.base))
    /\ RspIndex(arg) =>
           IF arg.index[1].scale = 1 /\ IsNone(arg.index[1].expr) /\ ~OptRegIs(arg.base, RSP)
           THEN /\ ~r.err
                /\ r.base = Some(arg.index[1].reg)
                /\ IsSome(arg.base) => r.index = Some(Index(arg.base[1], 1, None))
           ELSE r.err

\* C22: after sanitize_indirect succeeds on a normal 32/64-bit operand rsp is
\* not left as a real index: an rsp index with scale 1, no dynamic scale and a
\* base other than rsp is swapped, rsp becoming the base and the former base
\* the index with scale 1; an rsp index with another scale, with a dynamic
\* scale or next to the base rsp fails with Fatal.  A compile that returns Ok
\* then has the former base in the index field of the SIB byte and 100 in its
\* base field.
C22_RspNeverIndex ==
    Compiled =>
        \A i \in 1..Len(last.instr.args) :
            NormalWritten(last.instr.args[i]) =>
                \A a \in {last.instr.args[i]} :
                \A r \in {sanitize_indirect(Mode, a.nosplit, a.base, a.index)} :
                    /\ RspNeverIndex(a, r)
                    /\ (last.res = "Ok" /\ RspIndex(a) /\ IsSome(a.base)) =>
                         \E k \in 1..Len(Emitted) :
                            /\ Emitted[k].role = "sib" /\ IsByte(Emitted[k])
                            /\ Emitted[k].value.n.value[1] % 8 = 4
                            /\ (Emitted[k].value.n.value[1] \div 8) % 8
                                   = encode(a.base[1].kind) % 8

C22_Witness ==
    /\ Compiled /\ last.res = "Ok"
    /\ \E i \in 1..Len(last.instr.args) :
          /\ NormalWritten(last.instr.args[i]) /\ RspIndex(last.instr.args[i])
          /\ OptRegIs(last.instr.args[i].base, RBX)
    /\ \E k \in 1..Len(Emitted) : HasByte(Emitted[k], "sib", 28)

(***************************************************************************)
(* C23: a sole scaled index is split into base + index                     *)
(***************************************************************************)
\* a normal operand with no base and an index other than rsp
SoleIndex(arg) ==
    NormalWritten(arg) /\ IsNone(arg.base) /\ IsSome(arg.index) /\ ~RspIndex(arg)

Splits(arg) ==
    /\ SoleIndex(arg) /\ ~arg.nosplit
    /\ IsNone(arg.index[1].expr) /\ arg.index[1].scale \in {2, 3, 5, 9}

\* the address base + index * scale of a sanitized operand when each
\* register holds v
AddressAt(base, index, v) ==
    (IF IsSome(base) THEN v ELSE 0) + (IF IsSome(index) THEN v * index[1].scale ELSE 0)

\* C23: sanitize_indirect rewrites an operand with no base, a sole index of
\* static scale s in {2, 3, 5, 9} and nosplit not set to base = the index
\* register and index scale s - 1, one of 1, 2, 4, 8, so that the address is
\* the same; with nosplit set or with a dynamic scale the operand is left as
\* it was.  A compile of the split operand that returns Ok has a SIB byte with
\* the scale bits of s - 1 and the register in both fields.
C23_SplitIndex ==
    Compiled =>
        \A i \in 1..Len(last.instr.args) :
            SoleIndex(last.instr.args[i]) =>
                \A a \in {last.instr.args[i]} :
                \A r \in {sanitize_indirect(Mode, a.nosplit, a.base, a.index)} :
                    /\ ~r.err
                    /\ Splits(a) =>
                         /\ r.base = Some(a.index[1].reg)
                         /\ r.index = Some(Index(a.index[1].reg, a.index[1].scale - 1, None))
                         /\ a.index[1].scale - 1 \in {1, 2, 4, 8}
                         /\ IsSome(encode_scale(a.index[1].scale - 1))
                         /\ \A v \in 0..3 : AddressAt(r.base, r.index, v)
                                                = AddressAt(a.base, a.index, v)
                         /\ last.res = "Ok" =>
                              \E k \in 1..Len(Emitted) :
                                  HasByte(Emitted[k], "sib",
                                          encode_scale(a.index[1].scale - 1)[1] * 64
                                          + (encode(a.index[1].reg.kind) % 8) * 9)
                    /\ (a.nosplit \/ IsSome(a.index[1].expr)) =>
                         (r.base = a.base /\ r.index = a.index)

C23_Witness ==
    /\ Compiled /\ last.res = "Ok"
    /\ \E i \in 1..Len(last.instr.args) :
          /\ Splits(last.instr.args[i])
          /\ last.instr.args[i].index[1].scale = 9
          /\ RegIs(last.instr.args[i].index[1].reg, RCX)
    /\ \E k \in 1..Len(Emitted) : HasByte(Emitted[k], "sib", 201)

(***************************************************************************)
(* C24: the two-byte and the three-byte VEX prefix                         *)
(***************************************************************************)
IsVexPlan(p) == p.res = "run" /\ Intersects(p.data.flags, {"VEX_OP", "XOP_OP"})

\* the X and B bits are not needed
NoIndexBaseExtension(mode, p) ==
    \/ mode = "Protected"
    \/ /\ ~is_dynamic(index_kind_of(p.rm)) /\ encode(index_kind_of(p.rm)) < 8
       /\ ~is_dynamic(base_kind_of(p.rm)) /\ encode(base_kind_of(p.rm)) < 8

\* the condition of the two-byte form
TwoByteVex(mode, p) ==
    /\ "VEX_OP" \in p.data.flags /\ "XOP_OP" \notin p.data.flags
    /\ p.data.ops[1] = 1
    /\ ~p.rex_w
    /\ NoIndexBaseExtension(mode, p)

\* inverted R, inverted vvvv, L and pp in one byte
TwoByteVexPayload(mode, p, b) ==
    /\ b \div 128 = (IF mode = "Long" THEN 1 - ExtBit(reg_kind_of(p.reg)) ELSE 1)
    /\ (b \div 8) % 16 = 15 - encode(reg_kind_of(p.vvvv))
    /\ (b \div 4) % 2 = BoolU8(p.vex_l)
    /\ b % 4 = (IF p.pref_size THEN 1 ELSE IF p.pref_mod = Some(243) THEN 2
                ELSE IF p.pref_mod = Some(242) THEN 3 ELSE 0)

VexForm(mode, p, em, ok) ==
    \A k \in 1..Len(em) :
        em[k].role = "vex" =>
            IF TwoByteVex(mode, p)
            THEN /\ HasByte(em[k], "vex", 197)
                 /\ \A j \in 1..Len(em) : em[j].role # "vex1"
                 /\ ok => /\ em[k + 1].role = "vex2" /\ IsByte(em[k + 1])
                          /\ TwoByteVexPayload(mode, p, em[k + 1].value.n.value[1])
                          /\ em[k + 2].role = "opcode"
            ELSE /\ HasByte(em[k], "vex", IF "VEX_OP" \in p.data.flags THEN 196 ELSE 143)
                 /\ ok => /\ em[k + 1].role = "vex1" /\ em[k + 2].role = "vex2"
                          /\ em[k + 3].role = "opcode"

\* C24: compile_vex_xop pushes the two-byte form, 0xC5 and one byte with the
\* inverted R bit, the inverted vvvv, L and pp, exactly when the entry is VEX
\* and not XOP, the map selector is 1, REX.W is 0 and X and B are not needed
\* (index and base of code below 8 and not dynamic in Long mode, always in
\* Protected mode); in every other case it pushes the three-byte form that
\* starts with 0xC4 (VEX) or 0x8F (XOP).
C24_VexForm ==
    Compiled =>
        \A p \in {plan_instruction(Mode, current_arch.features, last.instr)} :
            IsVexPlan(p) =>
                /\ VexForm(Mode, p, Emitted, last.res = "Ok")
                /\ last.res = "Ok" => \E k \in 1..Len(Emitted) : Emitted[k].role = "vex"

\* vaddps xmm9, xmm1, xmm0 in Long mode: 0xC5, 0x70
C24_Witness ==
    /\ Compiled /\ Mode = "Long" /\ last.res = "Ok" /\ last.instr.op = "vaddps"
    /\ Len(Emitted) >= 2
    /\ HasByte(Emitted[1], "vex", 197) /\ HasByte(Emitted[2], "vex2", 112)

\* the three-byte forms are reached: VEX with REX.W and map 1, and XOP
C24_WitnessLong ==
    /\ Compiled /\ Mode = "Long" /\ last.res = "Ok"
    /\ \/ last.instr.op = "vmovq" /\ HasByte(Emitted[1], "vex", 196)
       \/ last.instr.op = "vfrczps" /\ HasByte(Emitted[1], "vex", 143)

(***************************************************************************)
(* C25: the size of an emitted immediate                                   *)
(***************************************************************************)
\* the size resolved for the slot i of the entry: the literal size code, or
\* for a * slot of an immediate min(operand size, DWORD)
ResolvedSlotSize(fmt, i, op_size) ==
    CASE FmtSize(fmt, i) = "b" -> BYTE
      [] FmtSize(fmt, i) = "w" -> WORD
      [] FmtSize(fmt, i) = "d" -> DWORD
      [] FmtSize(fmt, i) = "q" -> QWORD
      [] OTHER -> IF op_size > DWORD THEN DWORD ELSE op_size

ImmediateSlots(fmt, args) ==
    {i \in 1..Len(args) : args[i].t = "Immediate" /\ FmtCode(fmt, i) = "i"}

\* C25 as stated: every immediate operand is emitted with exactly the bytes
\* of the size resolved for its slot, whatever the size of the supplied value,
\* and an immediate wider than the resolved size is rejected.
C25_ImmediateSize ==
    Compiled =>
        \A p \in {plan_instruction(Mode, current_arch.features, last.instr)} :
            p.res = "run" =>
                \A san \in {sanitize_indirects_and_sizes(Mode, last.instr.args)} :
                \A sz \in {size_operands(p.data, san.args)} :
                \A i \in ImmediateSlots(p.data, san.args) :
                    (FmtSize(p.data, i) = "*" => IsSome(sz.op_size)) =>
                        \A size \in {ResolvedSlotSize(p.data, i,
                                        IF IsSome(sz.op_size) THEN sz.op_size[1] ELSE DWORD)} :
                            /\ ValueSize(san.args[i].value) <= size
                            /\ last.res = "Ok" =>
                                 \E k \in 1..Len(Emitted) :
                                     /\ Emitted[k].role = "immediate"
                                     /\ Emitted[k].type = "Const"
                                     /\ in_bytes(ValueSize(Emitted[k].value)) = in_bytes(size)

\* the immediate is emitted with the size of the supplied value
C25_ImmediateKeepsValueSize ==
    (Compiled /\ last.res = "Ok") =>
        \A i \in 1..Len(last.instr.args) :
            last.instr.args[i].t = "Immediate" =>
                \E k \in 1..Len(Emitted) :
                    /\ Emitted[k].role \in {"immediate", "short_op", "ireg", "imm_opcode"}
                    /\ Emitted[k].role = "immediate" =>
                           Emitted[k] = StmtConst(last.instr.args[i].value, "immediate")

(***************************************************************************)
(* C26: high-byte registers and REX                                        *)
(***************************************************************************)
\* the operands the entry encodes: those of the slots with a lowercase code
Encoded(fmt, args) ==
    {i \in 1..Len(args) : i <= Len(fmt.args) \div 2 /\ FmtCode(fmt, i) \in Lowercase}

IsHighByte(arg) == arg.t = "Direct" /\ arg.reg.kind.family = "HIGHBYTE"

\* an extended register as operand, base or index, or spl, bpl, sil, dil
OperandNeedsRex(arg) ==
    \/ /\ arg.t = "Direct" /\ arg.reg.kind.family # "HIGHBYTE"
       /\ \/ ExtBit(arg.reg.kind) = 1
          \/ is_dynamic(arg.reg.kind)
          \/ (arg.reg.size = BYTE /\ arg.reg.kind.family = "LEGACY"
              /\ arg.reg.kind.code \in 4..7)
    \/ /\ arg.t = "Indirect"
       /\ \/ IsSome(arg.base) /\ (ExtBit(arg.base[1].kind) = 1 \/ is_dynamic(arg.base[1].kind))
          \/ IsSome(arg.index) /\ (ExtBit(arg.index[1].reg.kind) = 1
                                   \/ is_dynamic(arg.index[1].reg.kind))

\* REX.W: a 64-bit operand size of an AUTO_SIZE or AUTO_REXW entry, or WITH_REXW
NeedsRexW(fmt, op_size) ==
    \/ "WITH_REXW" \in fmt.flags
    \/ Intersects(fmt.flags, {"AUTO_SIZE", "AUTO_REXW"}) /\ op_size = Some(QWORD)

\* C26: in Long mode an instruction whose encoded operands hold a high-byte
\* register (ah, ch, dh, bh) together with anything that requires a REX
\* prefix (REX.W, an extended register as operand, base or index, or a byte
\* register spl, bpl, sil, dil) fails with an error; with a high-byte register
\* and no such requirement a compile that returns Ok has pushed no REX byte
\* and the call does not fail with the high-byte error.
C26_HighByteExcludesRex ==
    (Compiled /\ Mode = "Long") =>
        \A san \in {sanitize_indirects_and_sizes("Long", last.instr.args)} :
        \A d \in {entry_of("Long", last.instr, san)} :
            IsSome(d) =>
                \A sz \in {size_operands(d[1], san.args)} :
                    (sz.st = "ok"
                     /\ \E i \in Encoded(d[1], sz.args) : IsHighByte(sz.args[i])) =>
                        IF \/ NeedsRexW(d[1], sz.op_size)
                           \/ \E i \in Encoded(d[1], sz.args) : OperandNeedsRex(sz.args[i])
                        THEN last.res = "Err"
                        ELSE /\ last.err # Generic("high byte register")
                             /\ \A k \in 1..Len(Emitted) : Emitted[k].role # "rex"

\* mov ah, r8b fails with the high-byte error
C26_Witness ==
    /\ Compiled /\ Mode = "Long"
    /\ last.instr = Instr(<<>>, "mov", <<Reg(BYTE, AH), Reg(BYTE, R8)>>)
    /\ last.res = "Err" /\ last.err = Generic("high byte register")

\* mov ah, al returns Ok without a REX byte
C26_WitnessNoRex ==
    /\ Compiled /\ Mode = "Long" /\ last.res = "Ok"
    /\ last.instr = Instr(<<>>, "mov", <<Reg(BYTE, AH), Reg(BYTE, RAX)>>)
    /\ Emitted = <<StmtExtend(<<136>>, "opcode"), StmtU8(196, "modrm")>>

(***************************************************************************)
(* C27: the size codes ! and ?                                             *)
(***************************************************************************)
\* the entries of the mnemonic with as many slots as the instruction has
\* operands
Candidates(instruction) ==
    IF instruction.op \in DOMAIN OpTable
    THEN {OpTable[instruction.op][j] : j \in
            {k \in 1..Len(OpTable[instruction.op]) :
                Len(OpTable[instruction.op][k].args) = 2 * Len(instruction.args)}}
    ELSE {}

SlotsOfSize(fmt, c) == {i \in 1..(Len(fmt.args) \div 2) : FmtSize(fmt, i) = c}

\* the operand has a size: a register, an immediate, a sized memory operand
\* or jump target
SizeSpecified(fmt, arg, i) == IsSome(slot_size(FmtCode(fmt, i), arg).size)
KindFits(fmt, arg, i) == slot_size(FmtCode(fmt, i), arg).ok

\* C27 as stated: a slot whose size code is ! never matches any operand,
\* whether or not the size of the operand is specified, and a slot with ?
\* matches an operand of any size.
C27_BangNeverMatches ==
    Compiled =>
        \A san \in {sanitize_indirects_and_sizes(Mode, last.instr.args)} :
            ~san.err =>
                \A fmt \in Candidates(last.instr) :
                    /\ \A i \in SlotsOfSize(fmt, "!") : match_slot(fmt, san.args[i], i) = "no"
                    /\ \A i \in SlotsOfSize(fmt, "?") :
                          (KindFits(fmt, san.args[i], i) /\ SizeSpecified(fmt, san.args[i], i))
                              => match_slot(fmt, san.args[i], i) = "yes"

\* C27, amended: a slot whose size code is ! matches exactly the operands of
\* a fitting kind whose size is not specified (unless the entry has
\* EXACT_SIZE), and refuses every operand whose size is specified; a slot with
\* ? matches an operand of a fitting kind of any size.  The entry a compile
\* has matched has operands without size in its ! slots.
C27_BangMatchesUnsized ==
    Compiled =>
        \A san \in {sanitize_indirects_and_sizes(Mode, last.instr.args)} :
            ~san.err =>
                /\ \A fmt \in Candidates(last.instr) :
                    /\ \A i \in SlotsOfSize(fmt, "!") :
                          (match_slot(fmt, san.args[i], i) = "yes")
                              = ( /\ KindFits(fmt, san.args[i], i)
                                  /\ ~SizeSpecified(fmt, san.args[i], i)
                                  /\ "EXACT_SIZE" \notin fmt.flags )
                    /\ \A i \in SlotsOfSize(fmt, "?") :
                          (KindFits(fmt, san.args[i], i) /\ SizeSpecified(fmt, san.args[i], i))
                              => match_slot(fmt, san.args[i], i) = "yes"
                /\ \A d \in {entry_of(Mode, last.instr, san)} :
                      IF IsSome(d)
                      THEN \A i \in SlotsOfSize(d[1], "!") : IsNone(last.instr.args[i].size)
                      ELSE ~( /\ last.instr.op = "lea" /\ IsNone(last.instr.args[2].size)
                              /\ IsSome(pref_addr_of(Mode,
                                            effective_addr_size(Mode, san.addr_size))) )

\* lea r12, [rbx] in Long mode matches the entry r*m! and returns Ok
C27_Witness ==
    /\ Compiled /\ Mode = "Long" /\ last.res = "Ok"
    /\ last.instr = Instr(<<>>, "lea", <<Reg(QWORD, R12),
                                         Mem(Some(new_static(QWORD, RBX)), None, None)>>)
    /\ Emitted = <<StmtU8(76, "rex"), StmtExtend(<<141>>, "opcode"), StmtU8(35, "modrm")>>

\* lea r12, QWORD [rbx] matches no entry; vmovmskps rax, xmm1 matches r?y*
C27_WitnessSized ==
    /\ Compiled /\ Mode = "Long"
    /\ \/ /\ last.instr.op = "lea" /\ last.instr.args[2].size = Some(QWORD)
          /\ last.res = "Err"
       \/ /\ last.instr.op = "vmovmskps" /\ last.instr.args[1] = Reg(QWORD, RAX)
          /\ last.res = "Ok"

(***************************************************************************)
(* C28: 16-bit addressing and the processor mode                           *)
(***************************************************************************)
\* mov eax, m with a memory operand of one of the 16-bit forms
MovFrom16(instruction) ==
    /\ instruction.op = "mov" /\ Len(instruction.args) = 2
    /\ instruction.args[1] = Reg(DWORD, RAX)
    /\ Is16(instruction.args[2]) /\ IsSome(Rm16(instruction.args[2]))

\* C28 as stated: a memory operand addressed through 16-bit registers, such
\* as [bx + si], compiles in Protected mode, with the address-size prefix
\* 0x67; in Long mode the 16-bit address size is refused with
\* UnsupportedOperandInThisMode.
C28_Addr16ByMode ==
    (Compiled /\ MovFrom16(last.instr)) =>
        IF Mode = "Protected"
        THEN /\ last.res = "Ok"
             /\ \E k \in 1..Len(Emitted) : HasByte(Emitted[k], "pref_addr", 103)
        ELSE /\ last.res = "Err"
             /\ last.err.kind = "UnsupportedOperandInThisMode"

\* what holds: Protected mode refuses the operand in sanitize_indirect, with
\* one diagnostic and Error::Fatal, and Long mode refuses it with
\* UnsupportedOperandInThisMode; no statement is pushed in either mode
C28_Addr16NeverCompiles ==
    (Compiled /\ MovFrom16(last.instr)) =>
        /\ last.res = "Err" /\ Emitted = <<>>
        /\ IF Mode = "Protected"
           THEN last.err = Fatal /\ last.diag = 1
           ELSE last.err.kind = "UnsupportedOperandInThisMode" /\ last.diag = 0

(***************************************************************************)
(* DYNASM_STORAGE and file_local_data (lib.rs): the threads that expand    *)
(* macro invocations share one RwLock<HashMap<PathBuf, Mutex<DynasmData>>>.*)
(* last is [op, storage, created, observed, thread]: storage maps a path   *)
(* to None or to its DynasmData, created counts the DynasmData::new() calls*)
(* inserted for a path, observed the identities of the entries that        *)
(* file_local_data returned for it, and thread[t] the position of thread t *)
(* in file_local_data, the path it asked for, the calls it made and        *)
(* whether it holds a read guard of the storage.  A DynasmData is          *)
(* [ident, current_arch, aliases]; ident tells the entries made for one    *)
(* path apart.                                                             *)
(***************************************************************************)
MaxCalls == 2
Threads == {"t1", "t2"}
Paths == {"a.rs", "b.rs"}
AliasNames == {"acc"}

\* DynasmData::new: the current architecture and no aliases
DynasmData_new(ident) == [ident |-> ident, current_arch |-> "x64", aliases |-> {}]

StorageLast(storage, created, observed, thread) ==
    [op |-> "file_local_data", storage |-> storage, created |-> created,
     observed |-> observed, thread |-> thread]

IdleThread == [at |-> "idle", id |-> "", calls |-> 0, guard |-> FALSE]

InitStorage ==
    /\ current_arch = Archx64
    /\ stmts = <<>>
    /\ pc = "storage"
    /\ last = StorageLast([p \in Paths |-> None], [p \in Paths |-> 0],
                          [p \in Paths |-> {}], [t \in Threads |-> IdleThread])

\* the threads that hold a RwLockReadGuard of DYNASM_STORAGE
Readers == {t \in Threads : last.thread[t].guard}

\* a macro invocation of thread t in the file id calls file_local_data(id)
FileLocalDataCall(t, id) ==
    /\ pc = "storage"
    /\ last.thread[t].at = "idle"
    /\ last.thread[t].calls < MaxCalls
    /\ last' = [last EXCEPT !.thread[t] =
                   [at |-> "check", id |-> id, calls |-> @.calls + 1, guard |-> FALSE]]
    /\ UNCHANGED <<current_arch, stmts, pc>>

\* the first block: under a read guard, return the entry when there is one,
\* otherwise drop the guard
FileLocalDataCheck(t) ==
    /\ pc = "storage"
    /\ last.thread[t].at = "check"
    /\ \E id \in {last.thread[t].id} :
           IF IsSome(last.storage[id])
           THEN last' = [last EXCEPT !.thread[t].at = "holding",
                                     !.thread[t].guard = TRUE,
                                     !.observed[id] = @ \cup {last.storage[id][1].ident}]
           ELSE last' = [last EXCEPT !.thread[t].at = "insert"]
    /\ UNCHANGED <<current_arch, stmts, pc>>

\* the second block: the write lock is granted when no read guard is held;
\* insert puts a new DynasmData under the path whether or not one is there
FileLocalDataInsert(t) ==
    /\ pc = "storage"
    /\ last.thread[t].at = "insert"
    /\ Readers = {}
    /\ \E id \in {last.thread[t].id} :
           last' = [last EXCEPT !.storage[id] = Some(DynasmData_new(last.created[id] + 1)),
                                !.created[id] = @ + 1,
                                !.thread[t].at = "reread"]
    /\ UNCHANGED <<current_arch, stmts, pc>>

\* the last line: a new read guard mapped to the entry of the path
FileLocalDataReread(t) ==
    /\ pc = "storage"
    /\ last.thread[t].at = "reread"
    /\ \E id \in {last.thread[t].id} :
           last' = [last EXCEPT !.thread[t].at = "holding",
                                !.thread[t].guard = TRUE,
                                !.observed[id] = @ \cup {last.storage[id][1].ident}]
    /\ UNCHANGED <<current_arch, stmts, pc>>

\* .arch through the returned FileLocalData (directive.rs 60), under the
\* Mutex of the entry
StorageSetArch(t, arch) ==
    /\ pc = "storage"
    /\ last.thread[t].at = "holding"
    /\ \E id \in {last.thread[t].id} :
           last' = [last EXCEPT !.storage[id] =
                       Some([last.storage[id][1] EXCEPT !.current_arch = arch])]
    /\ UNCHANGED <<current_arch, stmts, pc>>

\* .alias through the returned FileLocalData (directive.rs 94)
StorageAddAlias(t, alias) ==
    /\ pc = "storage"
    /\ last.thread[t].at = "holding"
    /\ \E id \in {last.thread[t].id} :
           last' = [last EXCEPT !.storage[id] =
                       Some([last.storage[id][1] EXCEPT !.aliases = @ \cup {alias}])]
    /\ UNCHANGED <<current_arch, stmts, pc>>

\* the FileLocalData goes out of scope: the read guard is released
FileLocalDataDrop(t) ==
    /\ pc = "storage"
    /\ last.thread[t].at = "holding"
    /\ last' = [last EXCEPT !.thread[t].at = "idle", !.thread[t].guard = FALSE]
    /\ UNCHANGED <<current_arch, stmts, pc>>

NextStorage ==
    \/ \E t \in Threads, id \in Paths : FileLocalDataCall(t, id)
    \/ \E t \in Threads : FileLocalDataCheck(t)
    \/ \E t \in Threads : FileLocalDataInsert(t)
    \/ \E t \in Threads : FileLocalDataReread(t)
    \/ \E t \in Threads, arch \in {"x64", "x86"} : StorageSetArch(t, arch)
    \/ \E t \in Threads, alias \in AliasNames : StorageAddAlias(t, alias)
    \/ \E t \in Threads : FileLocalDataDrop(t)

SpecStorage == InitStorage /\ [][NextStorage]_vars

(***************************************************************************)
(* C29.  For any interleaving of concurrent file_local_data calls and      *)
(* mutations of the returned DynasmData for one path, exactly one          *)
(* DynasmData is ever created for the path, an existing entry with the     *)
(* architecture and aliases set on it is never replaced by a default one,  *)
(* and all callers observe the same entry.                                 *)
(***************************************************************************)
C29_OneDynasmDataPerPath ==
    pc = "storage" =>
        \A p \in Paths :
            /\ last.created[p] <= 1
            /\ Cardinality(last.observed[p]) <= 1
            /\ (IsSome(last.storage[p]) => last.storage[p][1].ident = 1)

\* the part of C29 about the state set on an entry, as a step property: an
\* entry that exists is the same entry after every step
C29_EntryNeverReplaced ==
    [][pc = "storage" =>
         \A p \in Paths :
             IsSome(last.storage[p]) =>
                 last'.storage[p][1].ident = last.storage[p][1].ident]_vars

\* what the read guard does ensure: while a thread holds the FileLocalData
\* of a path nothing is inserted, so the entry it was given stays in place
C29_GuardPinsEntry ==
    [][pc = "storage" =>
         \A t \in Threads :
             (last.thread[t].guard /\ last'.thread[t].guard) =>
                 last'.storage[last.thread[t].id][1].ident
                     = last.storage[last.thread[t].id][1].ident]_vars

(***************************************************************************)
(* serialize (serialize.rs): the folding pass over the statements of one   *)
(* invocation.  The statements are the ones serialize.rs matches on:       *)
(* Const(value, size), Extend(data) and the statements it passes through   *)
(* (labels, relocations, expressions, Stmt), which carry a name here.      *)
(* value is a non-negative integer below 2^31 and data a sequence of bytes.*)
(* last is [op, stmts, res, folded]: the input list, "Ok" or "Panic" and   *)
(* folded_stmts after the first pass.                                      *)
(***************************************************************************)
MaxSerializeLen == 3

SerConst(value, size) == [t |-> "Const", value |-> value, size |-> size]
SerExtend(data) == [t |-> "Extend", data |-> data]
SerOther(name) == [t |-> "Other", name |-> name]

RECURSIVE write_le(_, _)
\* LittleEndian::write_u16, write_u32 and write_u64: the low byte first
write_le(value, n) ==
    IF n = 0 THEN <<>> ELSE <<value % 256>> \o write_le(value \div 256, n - 1)

\* the bytes a Const adds to const_buffer: value as u8, u16, u32 or u64,
\* little-endian (lines 15-30)
const_bytes(value, size) ==
    IF size = BYTE THEN <<value % 256>>
    ELSE IF size = WORD THEN write_le(value % 65536, 2)
    ELSE write_le(value, size)

\* the while loop of lines 46-50 that an unfaithful variant leaves out
split_off_long_never(folded, buffer) == [folded |-> folded, buffer |-> buffer]

RECURSIVE split_off_long(_, _)
\* lines 46-50: while the buffer holds more than 32 bytes its first 32 are
\* pushed as an Extend
split_off_long(folded, buffer) ==
    IF Len(buffer) > 32
    THEN split_off_long(Append(folded, SerExtend(SubSeq(buffer, 1, 32))),
                        SubSeq(buffer, 33, Len(buffer)))
    ELSE [folded |-> folded, buffer |-> buffer]

\* lines 39-42 and 52-54: a buffer that is not empty becomes an Extend
flush_buffer(folded, buffer) ==
    IF buffer # <<>> THEN Append(folded, SerExtend(buffer)) ELSE folded

\* the match of lines 12-45 on a statement of a supported size: a Const or
\* an Extend lengthens the buffer, any other statement flushes it and is
\* pushed
match_stmt(folded, buffer, stmt) ==
    IF stmt.t = "Const"
    THEN [folded |-> folded, buffer |-> buffer \o const_bytes(stmt.value, stmt.size)]
    ELSE IF stmt.t = "Extend"
    THEN [folded |-> folded, buffer |-> buffer \o stmt.data]
    ELSE [folded |-> Append(flush_buffer(folded, buffer), stmt), buffer |-> <<>>]

\* one iteration of the for loop (lines 11-51); acc is [res, folded, buffer].
\* A Const of another size than BYTE, WORD, DWORD and QWORD is unimplemented!()
fold_stmt(acc, stmt) ==
    IF acc.res # "Ok" THEN acc
    ELSE IF stmt.t = "Const" /\ stmt.size \notin {BYTE, WORD, DWORD, QWORD}
    THEN [acc EXCEPT !.res = "Panic"]
    ELSE \* the singleton binds the result of the match once
         CHOOSE n \in {[res |-> "Ok", folded |-> s.folded, buffer |-> s.buffer] :
                          s \in {split_off_long(m.folded, m.buffer) :
                                    m \in {match_stmt(acc.folded, acc.buffer, stmt)}}} : TRUE

RECURSIVE fold_from(_, _, _)
fold_from(acc, list, i) ==
    IF i > Len(list) THEN acc ELSE fold_from(fold_stmt(acc, list[i]), list, i + 1)

\* the first pass of serialize (lines 9-54): res and folded_stmts
fold_constants(list) ==
    CHOOSE r \in {[res |-> acc.res,
                   folded |-> IF acc.res = "Ok" THEN flush_buffer(acc.folded, acc.buffer)
                              ELSE <<>>] :
                     acc \in {fold_from([res |-> "Ok", folded |-> <<>>, buffer |-> <<>>],
                                        list, 1)}} : TRUE

SerializeLast(list) ==
    CHOOSE l \in {[op |-> "serialize", stmts |-> list, res |-> r.res, folded |-> r.folded] :
                     r \in {fold_constants(list)}} : TRUE

\* data of n bytes that differ from their neighbours
SerData(first, n) == [i \in 1 .. n |-> (first + i) % 256]

\* the statements the directives and the compiler hand to serialize: Consts
\* of the four pushed sizes (0x1234 as a byte is truncated), byte strings up
\* to more than two chunks, and statements that are passed through
SerializeStmts ==
    {SerConst(4660, BYTE), SerConst(4660, WORD), SerConst(19088743, DWORD),
     SerConst(19088743, QWORD), SerConst(70000, WORD)}
    \cup {SerExtend(SerData(first, n)) : first \in {100}, n \in {0, 1, 31, 32, 33, 70}}
    \cup {SerOther(name) : name \in {"local_label", "Stmt"}}

InitSerialize ==
    /\ current_arch = Archx64
    /\ stmts = <<>>
    /\ pc = "serialize"
    /\ last = SerializeLast(<<>>)

\* one more statement in the list that serialize is called with
SerializePushed(stmt) ==
    /\ pc = "serialize"
    /\ Len(last.stmts) < MaxSerializeLen
    /\ last' = SerializeLast(Append(last.stmts, stmt))
    /\ UNCHANGED <<current_arch, stmts, pc>>

\* the next invocation starts with an empty list
SerializeEmpty ==
    /\ pc = "serialize"
    /\ last.stmts # <<>>
    /\ last' = SerializeLast(<<>>)
    /\ UNCHANGED <<current_arch, stmts, pc>>

NextSerialize ==
    \/ \E stmt \in SerializeStmts : SerializePushed(stmt)
    \/ SerializeEmpty

SpecSerialize == InitSerialize /\ [][NextSerialize]_vars

RECURSIVE StreamFrom(_, _)
\* a statement list as the stream the assembler receives: the bytes of the
\* Consts (little-endian, at their size) and of the Extends one by one, and
\* every other statement as itself
StreamFrom(list, i) ==
    IF i > Len(list) THEN <<>>
    ELSE (IF list[i].t = "Const"
          THEN [k \in 1 .. list[i].size |->
                   IF k > 4 THEN 0 ELSE (list[i].value \div (256 ^ (k - 1))) % 256]
          ELSE IF list[i].t = "Extend" THEN list[i].data
          ELSE <<list[i]>>) \o StreamFrom(list, i + 1)

(***************************************************************************)
(* C30.  The folding pass of serialize preserves the statement stream: the *)
(* bytes of the emitted Extends, in order, are the little-endian encodings *)
(* of the input Consts and the bytes of the input Extends, every other     *)
(* statement keeps its place among those bytes and among the other         *)
(* statements, no Const is left, and no emitted Extend is empty or longer  *)
(* than 32 bytes.                                                          *)
(***************************************************************************)
C30_FoldPreservesStream ==
    pc = "serialize" =>
        /\ last.res = "Ok"
        /\ StreamFrom(last.folded, 1) = StreamFrom(last.stmts, 1)
        /\ \A i \in 1 .. Len(last.folded) :
               /\ last.folded[i].t # "Const"
               /\ last.folded[i].t = "Extend" =>
                      (Len(last.folded[i].data) >= 1 /\ Len(last.folded[i].data) <= 32)

\* 33 bytes, a label and a word: the 33 bytes leave as a chunk of 32 and a
\* chunk of one before the label, the word (0x1234 as 0x34, 0x12) after it
C30_Witness ==
    /\ pc = "serialize"
    /\ last.stmts = <<SerExtend(SerData(100, 33)), SerOther("local_label"), SerConst(4660, WORD)>>
    /\ last.folded = <<SerExtend(SerData(100, 32)), SerExtend(<<133>>),
                       SerOther("local_label"), SerExtend(<<52, 18>>)>>

\* a Const and an Extend that follow each other are folded into one Extend,
\* and a Const wider than its value is padded with zero bytes
C30_WitnessFolded ==
    /\ pc = "serialize"
    /\ last.stmts = <<SerConst(70000, WORD), SerConst(19088743, QWORD), SerExtend(SerData(100, 1))>>
    /\ last.folded = <<SerExtend(<<112, 17, 103, 69, 35, 1, 0, 0, 0, 0, 101>>)>>

====
